---- MODULE Spec2Model ----
(***************************************************************************)
(* BERTopic Pro: the model cache (ModelManager) and the pipeline wrapper   *)
(* (TopicAnalyzer, VisualizationGenerator) as state machines.              *)
(*                                                                         *)
(* Conventions.  A Python None is the record None.  A model identifier is  *)
(* a sequence of one-character strings, so that str.replace can be         *)
(* computed.  A path is a record [root, name]: root is "cache_dir" for     *)
(* paths built as cache_dir / x and "cwd" for Path(x) of a bare string.    *)
(* A document is a string; ''.join is string concatenation.                *)
(***************************************************************************)
EXTENDS Integers, Sequences, FiniteSets, TLC

VARIABLES
    metadata,   \* ModelManager.metadata: dict name -> ModelMetadata, in insertion order
    disk,       \* the file system: path -> None | [repo |-> id whose snapshot it holds]
    clock,      \* datetime.now(), a logical clock
    emb_cache,  \* embedding cache directory: fingerprint -> None | stored matrix
    analyzer,   \* the TopicAnalyzer: model, params, documents, embeddings, topics, probabilities
    saved,      \* trained-model directories: name -> None | the artifact files in it
    history,    \* what has happened to the analyzer since it was constructed
    last,       \* the last call made, its arguments and what it returned or raised
    workers,    \* the worker objects created so far, in order of creation
    gui,        \* the tabs: their buttons, their data and their worker references
    events,     \* terminal signals queued for the GUI thread
    processor,  \* the TextProcessor: its stopword set, and where the set came from
    config,     \* the user configuration: QSettings in memory and on disk, the JSON file
    managers    \* the ModelManagers of the tabs: each one's metadata, and the metadata file

mmVars == <<metadata, disk, clock>>
taVars == <<emb_cache, analyzer, saved, history>>
uiVars == <<workers, gui, events>>
utilVars == <<processor, config, managers>>
vars == <<metadata, disk, clock, emb_cache, analyzer, saved, history, last, workers, gui, events, processor, config, managers>>

(***************************************************************************)
(* Bounds of the model.                                                    *)
(***************************************************************************)
MaxClock == 2
MaxCalls == 4

None == [tag |-> "None"]

\* Identifiers the callers pass: "a/b" and "a--b" share one cache directory,
\* "m" may also name a directory of the working directory.
IdAB == <<"a", "/", "b">>
IdA_B == <<"a", "-", "-", "b">>
IdM == <<"m">>
SharedIds == {IdAB, IdM}
ModelIds == {IdAB, IdA_B, IdM}
LocalNames == {IdM}

(***************************************************************************)
(* Paths.                                                                  *)
(***************************************************************************)
RECURSIVE replace_slash(_)
replace_slash(s) ==
    IF s = <<>> THEN <<>>
    ELSE IF Head(s) = "/" THEN <<"-", "-">> \o replace_slash(Tail(s))
    ELSE <<Head(s)>> \o replace_slash(Tail(s))

CachePath(model_name) == [root |-> "cache_dir", name |-> replace_slash(model_name)]
LocalPath(model_name) == [root |-> "cwd", name |-> model_name]

Paths == {CachePath(m) : m \in ModelIds} \cup {LocalPath(m) : m \in LocalNames}

exists_in(dk, path) == path \in Paths /\ dk[path] # None

(***************************************************************************)
(* ModelMetadata and the metadata dict.                                    *)
(***************************************************************************)
DefaultMaxSeqLength == 512
HubMaxSeqLength(model_name) == 128
HubSizeMB(model_name) == 90

ModelMetadata(model_name, model_path, size_mb, download_date, max_seq_length) ==
    [model_name |-> model_name, model_path |-> model_path,
     model_type |-> "sentence-transformer", size_mb |-> size_mb,
     download_date |-> download_date, description |-> "",
     language |-> "multilingual", max_seq_length |-> max_seq_length]

Keys(md) == {md[i].model_name : i \in 1..Len(md)}
HasKey(md, model_name) == model_name \in Keys(md)
Lookup(md, model_name) ==
    md[CHOOSE i \in 1..Len(md) : md[i].model_name = model_name]

\* md[name] = rec: an existing key keeps its position, a new one goes last.
DictSet(md, rec) ==
    IF HasKey(md, rec.model_name)
    THEN [i \in 1..Len(md) |-> IF md[i].model_name = rec.model_name THEN rec ELSE md[i]]
    ELSE Append(md, rec)

\* del md[name]
DictDel(md, model_name) == SelectSeq(md, LAMBDA r : r.model_name # model_name)

(***************************************************************************)
(* ModelManager.is_model_cached, get_model_path                            *)
(***************************************************************************)
is_model_cached_metadata_only(md, dk, model_name) == HasKey(md, model_name)

is_model_cached_in(md, dk, model_name) ==
    IF ~HasKey(md, model_name) THEN FALSE
    ELSE LET model_path == Lookup(md, model_name).model_path
         IN  exists_in(dk, model_path)

is_model_cached(model_name) == is_model_cached_in(metadata, disk, model_name)

get_model_path_in(md, dk, model_name) ==
    IF ~is_model_cached_in(md, dk, model_name) THEN None
    ELSE Lookup(md, model_name).model_path

get_model_path(model_name) == get_model_path_in(metadata, disk, model_name)

(***************************************************************************)
(* Exceptions.  An exception is [type, msg]; a handler "except T" catches  *)
(* every subclass of T.  RepositoryNotFoundError derives from              *)
(* HfHubHTTPError, which derives (through OSError) from Exception.         *)
(***************************************************************************)
Exc(type, msg) == [type |-> type, msg |-> msg]

HubFailures == {"RepositoryNotFoundError", "HfHubHTTPError", "OSError"}

Bases(type) ==
    CASE type = "RepositoryNotFoundError" ->
             {"RepositoryNotFoundError", "HfHubHTTPError", "OSError", "Exception"}
      [] type = "HfHubHTTPError" -> {"HfHubHTTPError", "OSError", "Exception"}
      [] OTHER -> {type, "Exception"}

isinstance(exc, type) == type \in Bases(exc.type)

download_except_http_first(exc) ==
    IF isinstance(exc, "HfHubHTTPError")
    THEN Exc("Exception", "HTTP error downloading model")
    ELSE IF isinstance(exc, "RepositoryNotFoundError")
    THEN Exc("ValueError", "not found on HuggingFace Hub")
    ELSE exc

\* The handlers of download_model, tried in the order written.
download_except(exc) ==
    IF isinstance(exc, "RepositoryNotFoundError")
    THEN Exc("ValueError", "not found on HuggingFace Hub")
    ELSE IF isinstance(exc, "HfHubHTTPError")
    THEN Exc("Exception", "HTTP error downloading model")
    ELSE exc

(***************************************************************************)
(* ModelManager.download_model.  e is what the environment does during the *)
(* call: e.hub is "ok" or the failure of snapshot_download, e.partial      *)
(* whether a failed snapshot left the directory behind, e.probe whether    *)
(* the SentenceTransformer probe for max_seq_length loads.                 *)
(* The result is the state after the call and what the caller observes.    *)
(***************************************************************************)
DownloadEnvs ==
    {e \in [hub : {"ok"} \cup HubFailures, partial : BOOLEAN, probe : BOOLEAN] :
        /\ (e.hub = "ok" => ~e.partial)
        /\ (e.partial => e.hub = "HfHubHTTPError")
        /\ (e.hub # "ok" => e.probe)}

\* The environment when nothing fails; the only one tried where the call never
\* reaches the hub, the probe or rmtree.
QuietEnv == [hub |-> "ok", partial |-> FALSE, probe |-> TRUE]

\* snapshot_download(repo_id, local_dir): the directory holds the snapshot.
snapshot_download(dk, model_name, model_path) ==
    [dk EXCEPT ![model_path] = [repo |-> model_name]]

\* A snapshot that failed part-way: the directory may have been created.
snapshot_partial(dk, model_name, model_path) ==
    IF dk[model_path] = None THEN [dk EXCEPT ![model_path] = [repo |-> model_name]]
    ELSE dk

download_cached_record_only(md, dk, clk, model_name, force) ==
    ~force /\ HasKey(md, model_name)

download_cached_never(md, dk, clk, model_name, force) == FALSE

\* The short cut of download_model: not forced and already cached.
download_cached(md, dk, clk, model_name, force) ==
    ~force /\ is_model_cached_in(md, dk, model_name)

download_model(md, dk, clk, model_name, force, e) ==
    IF download_cached(md, dk, clk, model_name, force)
    THEN [metadata |-> md, disk |-> dk, clock |-> clk,
          raised |-> None, cause |-> None,
          ret |-> get_model_path_in(md, dk, model_name),
          progress |-> <<100>>, hub |-> FALSE]
    ELSE LET model_path == CachePath(model_name) IN
         IF e.hub # "ok"
         THEN [metadata |-> md,
               disk |-> IF e.partial THEN snapshot_partial(dk, model_name, model_path)
                        ELSE dk,
               clock |-> clk,
               raised |-> download_except(Exc(e.hub, "snapshot_download")),
               cause |-> Exc(e.hub, "snapshot_download"),
               ret |-> None, progress |-> <<5>>, hub |-> TRUE]
         ELSE LET max_seq_length == IF e.probe THEN HubMaxSeqLength(model_name)
                                    ELSE DefaultMaxSeqLength
                  rec == ModelMetadata(model_name, model_path, HubSizeMB(model_name),
                                       clk, max_seq_length)
              IN  [metadata |-> DictSet(md, rec),
                   disk |-> snapshot_download(dk, model_name, model_path),
                   clock |-> clk + 1,
                   raised |-> None, cause |-> None,
                   ret |-> model_path, progress |-> <<5, 80, 100>>, hub |-> TRUE]

(***************************************************************************)
(* ModelManager.load_model.  st: whether SentenceTransformer(path) loads.  *)
(* The loaded model is [path, weights]: where it was read from and the     *)
(* snapshot found there.                                                   *)
(***************************************************************************)
SentenceTransformer(dk, path) == [path |-> path, weights |-> dk[path].repo]

load_from_cache(r, model_name, st, looked_up) ==
    LET model_path == get_model_path_in(r.metadata, r.disk, model_name) IN
    IF st /\ model_path # None
    THEN [r EXCEPT !.ret = SentenceTransformer(r.disk, model_path),
                   !.progress = r.progress \o <<50, 100>>]
    ELSE [r EXCEPT !.ret = None,
                   !.raised = Exc("OSError", "SentenceTransformer"),
                   !.progress = r.progress \o <<50>>]

is_local_path_never(dk, model_name) == FALSE

\* Path(model_name).exists()
is_local_path(dk, model_name) == exists_in(dk, LocalPath(model_name))

\* Whether load_model reaches download_model, and whether it raises before
\* any model is read.
load_downloads(md, dk, model_name, download_if_missing) ==
    /\ ~exists_in(dk, LocalPath(model_name))
    /\ ~is_model_cached_in(md, dk, model_name)
    /\ download_if_missing

load_fails_early(md, dk, model_name, download_if_missing) ==
    /\ ~exists_in(dk, LocalPath(model_name))
    /\ ~is_model_cached_in(md, dk, model_name)
    /\ ~download_if_missing

\* load_model once download_model has returned d.
load_downloaded(r0, d, model_name, st) ==
    LET r1 == [r0 EXCEPT !.metadata = d.metadata, !.disk = d.disk,
                         !.clock = d.clock, !.raised = d.raised,
                         !.cause = d.cause, !.progress = d.progress,
                         !.hub = d.hub, !.looked_up = TRUE]
    IN  IF d.raised # None THEN r1
        ELSE load_from_cache(r1, model_name, st, TRUE)

load_model(md, dk, clk, model_name, download_if_missing, e, st) ==
    LET r0 == [metadata |-> md, disk |-> dk, clock |-> clk, raised |-> None,
               cause |-> None, ret |-> None, progress |-> <<>>, hub |-> FALSE,
               looked_up |-> FALSE]
    IN
    IF is_local_path(dk, model_name)
    THEN IF st
         THEN [r0 EXCEPT !.ret = SentenceTransformer(dk, LocalPath(model_name)),
                         !.progress = <<50, 100>>]
         ELSE [r0 EXCEPT !.raised = Exc("OSError", "SentenceTransformer"),
                         !.progress = <<50>>]
    ELSE IF ~is_model_cached_in(md, dk, model_name)
    THEN IF download_if_missing
         THEN load_downloaded(r0, download_model(md, dk, clk, model_name, FALSE, e),
                              model_name, st)
         ELSE [r0 EXCEPT !.raised = Exc("ValueError", "not cached and download_if_missing=False"),
                         !.looked_up = TRUE]
    ELSE load_from_cache([r0 EXCEPT !.looked_up = TRUE], model_name, st, TRUE)

(***************************************************************************)
(* ModelManager.delete_model.  rm: whether shutil.rmtree succeeds.         *)
(***************************************************************************)
delete_model_cached_only(md, dk, model_name, rm) ==
    IF ~is_model_cached_in(md, dk, model_name) \/ ~rm
    THEN [metadata |-> md, disk |-> dk, ret |-> FALSE]
    ELSE [metadata |-> DictDel(md, model_name),
          disk |-> [dk EXCEPT ![Lookup(md, model_name).model_path] = None],
          ret |-> TRUE]

delete_model(md, dk, model_name, rm) ==
    IF ~HasKey(md, model_name)
    THEN [metadata |-> md, disk |-> dk, ret |-> FALSE]
    ELSE LET model_path == Lookup(md, model_name).model_path IN
         IF exists_in(dk, model_path) /\ ~rm
         THEN [metadata |-> md, disk |-> dk, ret |-> FALSE]
         ELSE [metadata |-> DictDel(md, model_name),
               disk |-> IF exists_in(dk, model_path)
                        THEN [dk EXCEPT ![model_path] = None] ELSE dk,
               ret |-> TRUE]

\* clear_cache: delete_model for each key of list(self.metadata.keys()), in order;
\* fails is the set of names whose rmtree fails.
RECURSIVE clear_loop(_, _, _, _)
clear_loop(names, md, dk, fails) ==
    IF names = <<>> THEN [metadata |-> md, disk |-> dk, ret |-> TRUE]
    ELSE LET d == delete_model(md, dk, Head(names), Head(names) \notin fails)
         IN  clear_loop(Tail(names), d.metadata, d.disk, fails)

clear_cache(md, dk, fails) ==
    clear_loop([i \in 1..Len(md) |-> md[i].model_name], md, dk, fails)

(***************************************************************************)
(* TopicModelParams.  Optional[int] is None or [int |-> n]; the tuple      *)
(* (1, 2) is [py |-> "tuple", items |-> <<1, 2>>], the list [1, 2] is      *)
(* [py |-> "list", items |-> <<1, 2>>]; the float 0.0 is written 0.        *)
(***************************************************************************)
DEFAULT_EMBEDDING_MODEL == IdAB

PyTuple(items) == [py |-> "tuple", items |-> items]
PyList(items) == [py |-> "list", items |-> items]

CtorParams ==
    {"embedding_model", "umap_n_neighbors", "umap_n_components", "umap_min_dist",
     "umap_metric", "hdbscan_min_cluster_size", "hdbscan_min_samples",
     "hdbscan_metric", "top_n_words", "ngram_range", "min_topic_size",
     "nr_topics", "calculate_probabilities", "verbose"}

CtorDefaults ==
    [embedding_model |-> DEFAULT_EMBEDDING_MODEL,
     umap_n_neighbors |-> 15, umap_n_components |-> 5, umap_min_dist |-> 0,
     umap_metric |-> "cosine",
     hdbscan_min_cluster_size |-> 10, hdbscan_min_samples |-> 10,
     hdbscan_metric |-> "euclidean",
     top_n_words |-> 10, ngram_range |-> PyTuple(<<1, 2>>),
     min_topic_size |-> 10,
     nr_topics |-> None, calculate_probabilities |-> FALSE, verbose |-> TRUE]

\* TopicModelParams(**kwargs): every attribute is the argument, or its default.
TopicModelParams(kwargs) ==
    [k \in CtorParams |-> IF k \in DOMAIN kwargs THEN kwargs[k] ELSE CtorDefaults[k]]

ToDictKeys ==
    {"embedding_model", "umap_n_neighbors", "umap_n_components", "umap_min_dist",
     "umap_metric", "hdbscan_min_cluster_size", "hdbscan_min_samples",
     "hdbscan_metric", "top_n_words", "ngram_range", "min_topic_size",
     "nr_topics", "calculate_probabilities", "verbose"}

\* to_dict with the 'verbose' entry left out.
to_dict_without_verbose(params) == [k \in ToDictKeys \ {"verbose"} |-> params[k]]

to_dict(params) == [k \in ToDictKeys |-> params[k]]

\* cls(**data): a key that is no constructor parameter is a TypeError.
from_dict(data) ==
    IF DOMAIN data \subseteq CtorParams
    THEN TopicModelParams(data)
    ELSE Exc("TypeError", "unexpected keyword argument")

\* json.dump followed by json.load: a tuple comes back as a list.
json_round_trip(data) ==
    [k \in DOMAIN data |->
        IF k = "ngram_range" THEN PyList(data[k].items)
        ELSE data[k]]

\* The parameter bundles the callers pass.
DefaultParams == TopicModelParams([verbose |-> TRUE])
OtherParams ==
    TopicModelParams([nr_topics |-> [int |-> 5],
                      calculate_probabilities |-> TRUE,
                      ngram_range |-> PyTuple(<<1, 1>>)])
ParamChoices == {None, OtherParams}

(***************************************************************************)
(* Documents and the embedding cache.                                      *)
(***************************************************************************)
FingerprintDocs == 100

Repeat(doc, n) == [i \in 1..n |-> doc]

\* Two document lists with the same first 100 documents, and a short one.
DocsY == Repeat("x", FingerprintDocs) \o <<"y">>
DocsYZ == Repeat("x", FingerprintDocs) \o <<"y", "z">>
DocsQ == <<"q", "r">>
DocSets == {DocsY, DocsYZ, DocsQ}

Min(a, b) == IF a < b THEN a ELSE b

\* documents[:n]
Prefix(documents, n) == SubSeq(documents, 1, Min(n, Len(documents)))

\* ''.join(documents)
RECURSIVE join(_)
join(documents) ==
    IF documents = <<>> THEN "" ELSE Head(documents) \o join(Tail(documents))

get_embedding_cache_path_all_docs(documents) ==
    [root |-> "embedding_cache_dir", md5 |-> join(documents)]

\* content = ''.join(documents[:100]), computed once for each document list.
content == [d \in DocSets |-> join(Prefix(d, FingerprintDocs))]

\* _get_embedding_cache_path: the file named by the md5 of content; md5 is
\* taken to be injective and written as its argument.
get_embedding_cache_path(documents) ==
    [root |-> "embedding_cache_dir", md5 |-> content[documents]]

CachePaths == {get_embedding_cache_path(d) : d \in DocSets}
              \cup {get_embedding_cache_path_all_docs(d) : d \in DocSets}

\* embedding_model.encode(documents).astype(float32): one row per document,
\* determined by the weights of the model and the document.
encode(embedding_model, documents) ==
    [weights |-> embedding_model.weights, rows |-> documents]

Rows(matrix) == Len(matrix.rows)

\* _load_cached_embeddings.  read_ok: whether joblib.load succeeds.
load_cached_embeddings(cache, documents, read_ok) ==
    LET cache_path == get_embedding_cache_path(documents) IN
    IF cache[cache_path] # None
    THEN IF read_ok THEN cache[cache_path] ELSE None
    ELSE None

\* _save_embeddings_cache.  write_ok: whether joblib.dump succeeds.
save_embeddings_cache(cache, documents, embeddings, write_ok) ==
    LET cache_path == get_embedding_cache_path(documents) IN
    IF write_ok THEN [cache EXCEPT ![cache_path] = embeddings] ELSE cache

(***************************************************************************)
(* TopicAnalyzer.generate_embeddings.  g is what the environment does:     *)
(* g.read_ok and g.write_ok for the cache file, g.e and g.st for the       *)
(* model manager's load_model.                                             *)
(***************************************************************************)
GenEnvs ==
    {g \in [read_ok : BOOLEAN, write_ok : BOOLEAN, e : DownloadEnvs, st : BOOLEAN] :
        /\ g.e.probe
        /\ g.e.hub \in {"ok", "OSError"}
        /\ (g.e.hub # "ok" => g.st)}

QuietGen == [read_ok |-> TRUE, write_ok |-> TRUE, e |-> QuietEnv, st |-> TRUE]

\* generate_embeddings once the model manager's load_model has returned l.
embed_loaded(r0, l, cache, documents, use_cache, write_ok) ==
    LET r1 == [r0 EXCEPT !.metadata = l.metadata, !.disk = l.disk,
                         !.clock = l.clock, !.hub = l.hub,
                         !.progress = <<10>>]
    IN
    IF l.raised # None
    THEN [r1 EXCEPT !.raised = l.raised]
    ELSE LET embeddings == encode(l.ret, documents) IN
         [r1 EXCEPT !.ret = embeddings,
                    !.loaded = TRUE,
                    !.encoded = TRUE,
                    !.emb_cache =
                        IF use_cache
                        THEN save_embeddings_cache(cache, documents, embeddings, write_ok)
                        ELSE cache,
                    !.progress = <<10, 30, 90, 100>>]

\* generate_embeddings once the cache has been consulted.
embed_cached(r0, cached_embeddings, md, dk, clk, cache, documents, embedding_model_name, use_cache, g) ==
    IF cached_embeddings # None
    THEN [r0 EXCEPT !.ret = cached_embeddings, !.progress = <<100>>]
    ELSE embed_loaded(r0, load_model(md, dk, clk, embedding_model_name, TRUE, g.e, g.st),
                      cache, documents, use_cache, g.write_ok)

generate_embeddings(md, dk, clk, cache, documents, embedding_model_name, use_cache, g) ==
    embed_cached([metadata |-> md, disk |-> dk, clock |-> clk, emb_cache |-> cache,
                  raised |-> None, ret |-> None, progress |-> <<>>,
                  loaded |-> FALSE, encoded |-> FALSE, hub |-> FALSE],
                 IF use_cache THEN load_cached_embeddings(cache, documents, g.read_ok)
                 ELSE None,
                 md, dk, clk, cache, documents, embedding_model_name, use_cache, g)

\* Which parts of the environment a call of generate_embeddings reaches.
gen_cache_hit(cache, documents, use_cache, g) ==
    use_cache /\ load_cached_embeddings(cache, documents, g.read_ok) # None

(***************************************************************************)
(* The BERTopic pipeline object: [fitted, params, topics_].  A list of     *)
(* topic labels is PyList(labels).                                         *)
(***************************************************************************)
BERTopic(params) == [fitted |-> FALSE, params |-> params, topics_ |-> None]

FitOutcomes == {"fails", "one_topic", "outlier_and_topic"}

Labels(documents, outcome) ==
    [i \in 1..Len(documents) |->
        IF outcome = "outlier_and_topic" /\ i = 1 THEN -1 ELSE 0]

\* fit_transform raises when the embeddings do not have one row per document.
fit_fails(documents, embeddings, outcome) ==
    outcome = "fails" \/ Rows(embeddings) # Len(documents)

fit_transform(model, documents, embeddings, outcome) ==
    [model |-> [model EXCEPT !.fitted = TRUE,
                             !.topics_ = PyList(Labels(documents, outcome))],
     topics |-> PyList(Labels(documents, outcome)),
     probabilities |-> IF model.params.calculate_probabilities
                       THEN [rows |-> Len(documents)] ELSE None]

\* BERTopic.get_topic_info / get_topic: check_is_fitted raises on a model that
\* was never fitted.
NotFittedError == Exc("ValueError", "This BERTopic instance is not fitted yet")

Range(f) == {f[i] : i \in DOMAIN f}

model_get_topic_info(model) ==
    IF model.fitted
    THEN [raised |-> None, ret |-> [topic_labels |-> Range(model.topics_.items)]]
    ELSE [raised |-> NotFittedError, ret |-> None]

model_get_topic(model, topic_id) ==
    IF model.fitted
    THEN [raised |-> None,
          ret |-> IF topic_id \in Range(model.topics_.items)
                  THEN [words |-> <<[word |-> "w", topic |-> topic_id]>>]
                  ELSE [words |-> <<>>]]
    ELSE [raised |-> NotFittedError, ret |-> None]

(***************************************************************************)
(* TopicAnalyzer.                                                          *)
(***************************************************************************)
NewTopicAnalyzer ==
    [model |-> None, params |-> None, documents |-> None, embeddings |-> None,
     topics |-> None, probabilities |-> None]

\* int(pct * 0.3)
scale_progress(pct) == (pct * 3) \div 10

train_params(params) == IF params = None THEN TopicModelParams([verbose |-> TRUE])
                        ELSE params

\* TopicAnalyzer.train.  supplied: the embeddings argument (None to generate);
\* g: the environment of generate_embeddings; outcome: what fit_transform does.
train_embedded(a1, gen, p0, documents, params, outcome) ==
    LET r0 == [analyzer |-> a1, metadata |-> gen.metadata, disk |-> gen.disk,
               clock |-> gen.clock, emb_cache |-> gen.emb_cache,
               raised |-> gen.raised, ret |-> None, progress |-> p0,
               loaded |-> gen.loaded, encoded |-> gen.encoded, hub |-> gen.hub]
    IN
    IF gen.raised # None THEN r0
    ELSE LET embeddings == gen.ret
             a2 == [a1 EXCEPT !.model = BERTopic(params)]
         IN
         IF fit_fails(documents, embeddings, outcome)
         THEN [r0 EXCEPT !.analyzer = a2,
                         !.raised = Exc("ValueError", "fit_transform"),
                         !.progress = p0 \o <<30, 40>>]
         ELSE LET f == fit_transform(a2.model, documents, embeddings, outcome) IN
              [r0 EXCEPT !.analyzer = [a2 EXCEPT !.model = f.model,
                                                !.documents = PyList(documents),
                                                !.embeddings = embeddings,
                                                !.topics = f.topics,
                                                !.probabilities = f.probabilities],
                         !.ret = [topics |-> f.topics, probabilities |-> f.probabilities],
                         !.progress = p0 \o <<30, 40, 100>>]

\* The progress train reports while the embeddings are generated.
train_progress(gen) ==
    <<0>> \o [i \in 1..Len(gen.progress) |-> scale_progress(gen.progress[i])]

train_generated(a1, gen, documents, params, outcome) ==
    train_embedded(a1, gen, train_progress(gen), documents, params, outcome)

train(a, md, dk, clk, cache, documents, supplied, params_arg, g, outcome) ==
    IF supplied = None
    THEN train_generated([a EXCEPT !.params = train_params(params_arg)],
                         generate_embeddings(md, dk, clk, cache, documents,
                                             train_params(params_arg).embedding_model,
                                             TRUE, g),
                         documents, train_params(params_arg), outcome)
    ELSE train_embedded([a EXCEPT !.params = train_params(params_arg)],
                        [metadata |-> md, disk |-> dk, clock |-> clk,
                         emb_cache |-> cache, raised |-> None, ret |-> supplied,
                         progress |-> <<>>, loaded |-> FALSE, encoded |-> FALSE,
                         hub |-> FALSE],
                        <<>>, documents, train_params(params_arg), outcome)

\* The count in "Training complete: {len(set(topics)) - 1} topics found".
topics_found(topics) == Cardinality(Range(topics.items)) - 1

\* get_topic_info, get_topic_words, get_document_topics
get_topic_info(a) ==
    IF a.model = None THEN [raised |-> None, ret |-> None]
    ELSE model_get_topic_info(a.model)

get_topic_words(a, topic_id, top_n) ==
    IF a.model = None THEN [raised |-> None, ret |-> [words |-> <<>>]]
    ELSE LET t == model_get_topic(a.model, topic_id) IN
         IF t.raised # None THEN t
         ELSE [raised |-> None,
               ret |-> [words |-> SubSeq(t.ret.words, 1, Min(top_n, Len(t.ret.words)))]]

get_document_topics(a) == [raised |-> None, ret |-> a.topics]

(***************************************************************************)
(* TopicAnalyzer.save_model and load_model.  A model directory is None     *)
(* (absent) or [model, params, topics, embeddings], each an artifact file's *)
(* content or None when the file is absent.                                *)
(***************************************************************************)
SaveNames == {"bertopic_model"}
Artifacts == {"model", "params", "topics", "embeddings"}

EmptyDir == [model |-> None, params |-> None, topics |-> None, embeddings |-> None]

mkdir(dirs, name) ==
    IF dirs[name] = None THEN [dirs EXCEPT ![name] = EmptyDir] ELSE dirs

save_model(a, dirs, name) ==
    IF a.model = None
    THEN [saved |-> dirs, raised |-> Exc("ValueError", "No model to save"),
          ret |-> None, written |-> {}]
    ELSE LET d0 == mkdir(dirs, name)
             d1 == [d0 EXCEPT ![name].model = a.model]
         IN
         IF a.params = None
         THEN [saved |-> d1,
               raised |-> Exc("AttributeError", "'NoneType' object has no attribute 'to_dict'"),
               ret |-> None, written |-> {"model"}]
         ELSE LET d2 == [d1 EXCEPT ![name].params = json_round_trip(to_dict(a.params))]
                  d3 == IF a.topics # None
                        THEN [d2 EXCEPT ![name].topics = a.topics] ELSE d2
                  d4 == IF a.embeddings # None
                        THEN [d3 EXCEPT ![name].embeddings = a.embeddings] ELSE d3
              IN  [saved |-> d4, raised |-> None, ret |-> [dir |-> name],
                   written |-> {"model", "params"}
                               \cup (IF a.topics # None THEN {"topics"} ELSE {})
                               \cup (IF a.embeddings # None THEN {"embeddings"} ELSE {})]

\* bad: the artifact whose file cannot be read ("none" when all can).
LoadFaults == {"none", "model", "params", "topics", "embeddings"}

analyzer_load_model(a, dirs, name, bad) ==
    LET dir == IF dirs[name] = None THEN EmptyDir ELSE dirs[name] IN
    IF dir.model = None \/ bad = "model"
    THEN [analyzer |-> a, raised |-> Exc("OSError", "BERTopic.load")]
    ELSE LET a1 == [a EXCEPT !.model = dir.model] IN
         IF dir.params # None /\ bad = "params"
         THEN [analyzer |-> a1, raised |-> Exc("ValueError", "json.load")]
         ELSE LET a2 == IF dir.params # None
                        THEN [a1 EXCEPT !.params = from_dict(dir.params)] ELSE a1
              IN
              IF dir.topics # None /\ bad = "topics"
              THEN [analyzer |-> a2, raised |-> Exc("OSError", "joblib.load")]
              ELSE LET a3 == IF dir.topics # None
                             THEN [a2 EXCEPT !.topics = dir.topics] ELSE a2
                   IN
                   IF dir.embeddings # None /\ bad = "embeddings"
                   THEN [analyzer |-> a3, raised |-> Exc("OSError", "joblib.load")]
                   ELSE [analyzer |-> IF dir.embeddings # None
                                      THEN [a3 EXCEPT !.embeddings = dir.embeddings]
                                      ELSE a3,
                         raised |-> None]

\* VisualizationGenerator.__init__
visualization_generator_init(a) ==
    IF a.model = None
    THEN [raised |-> Exc("ValueError", "TopicAnalyzer must have a trained model"),
          ret |-> None]
    ELSE [raised |-> None, ret |-> [model |-> a.model]]

(***************************************************************************)
(* The record of the last call.                                            *)
(***************************************************************************)
NoCall ==
    [op |-> "none", model_name |-> <<>>, force |-> FALSE, flag |-> FALSE,
     raised |-> None, cause |-> None, ret |-> None, progress |-> <<>>,
     hub |-> FALSE, looked_up |-> FALSE,
     documents |-> <<>>, read_ok |-> TRUE, loaded |-> FALSE, encoded |-> FALSE,
     written |-> {}, args |-> None]

\* TextProcessor(): the default stopword file is loaded.  loaded and added
\* remember the words of the last file loaded successfully and the words
\* add_stopwords was given since.
NewTextProcessor == [stopwords |-> {"the"}, loaded |-> {"the"}, added |-> {}]

\* The user configuration of a first start: no settings file, no model
\* configuration file.  mem is what the QSettings objects of the process hold
\* (objects for one organisation and application share it), disk what the
\* settings file holds; cache[i] is the _model_config_cache of the i-th
\* ConfigManager, file the content of USER_CONFIG_FILE.
\* The ModelManagers of the modeling tab and of the settings tab, constructed
\* at start over a cache directory without a metadata file.  downloaded is
\* the set of models downloaded successfully and not deleted since.
NewManagers ==
    [metadata |-> [i \in 1..2 |-> <<>>], metadata_file |-> None, downloaded |-> {}]

NoSettings == [key \in {} |-> None]

NewConfig ==
    [mem |-> NoSettings, disk |-> NoSettings,
     cache |-> [i \in 1..2 |-> None], file |-> None,
     added |-> <<>>, calls |-> 0]

\* The tabs as their constructors leave them: the process, save and save-model
\* buttons disabled, the download and train buttons enabled, no file loaded,
\* no processed data, no worker (0 stands for None).  threads: the workers
\* whose QThread was started and has not quit.
NewGui ==
    [process_btn |-> FALSE, save_btn |-> FALSE,
     download_btn |-> TRUE, train_btn |-> TRUE, save_model_btn |-> FALSE,
     current_df |-> None, processed_data |-> None,
     preprocess_worker |-> 0, modeling_worker |-> 0, threads |-> {}]

\* What is remembered of the analyzer's past: whether a train() or
\* load_model() has ever succeeded on it, and the call that set its model.
NewHistory == [completed |-> FALSE, origin |-> "none", calls |-> 0]

(***************************************************************************)
(* Initial state: a fresh cache directory, no metadata file.               *)
(***************************************************************************)
Init ==
    /\ metadata = <<>>
    /\ disk = [p \in Paths |-> None]
    /\ clock = 0
    /\ emb_cache = [p \in CachePaths |-> None]
    /\ analyzer = NewTopicAnalyzer
    /\ saved = [n \in SaveNames |-> None]
    /\ history = NewHistory
    /\ last = NoCall
    /\ workers = <<>>
    /\ gui = NewGui
    /\ events = <<>>
    /\ processor = NewTextProcessor
    /\ config = NewConfig
    /\ managers = NewManagers

(***************************************************************************)
(* Actions of the ModelManager.                                            *)
(***************************************************************************)
DownloadModel ==
    \E model_name \in ModelIds, force \in BOOLEAN, e \in DownloadEnvs :
        LET d == download_model(metadata, disk, clock, model_name, force, e) IN
        /\ clock < MaxClock
        /\ download_cached(metadata, disk, clock, model_name, force) => e = QuietEnv
        /\ metadata' = d.metadata
        /\ disk' = d.disk
        /\ clock' = d.clock
        /\ last' = [NoCall EXCEPT !.op = "download_model", !.model_name = model_name,
                                  !.force = force, !.raised = d.raised,
                                  !.cause = d.cause, !.ret = d.ret,
                                  !.progress = d.progress, !.hub = d.hub]
        /\ UNCHANGED <<taVars, uiVars, utilVars>>

LoadModel ==
    \E model_name \in ModelIds, download_if_missing \in BOOLEAN,
       e \in DownloadEnvs, st \in BOOLEAN :
        LET r == load_model(metadata, disk, clock, model_name, download_if_missing, e, st) IN
        /\ clock < MaxClock
        /\ ~load_downloads(metadata, disk, model_name, download_if_missing) => e = QuietEnv
        /\ load_fails_early(metadata, disk, model_name, download_if_missing) => st
        /\ e.hub # "ok" => st
        /\ metadata' = r.metadata
        /\ disk' = r.disk
        /\ clock' = r.clock
        /\ last' = [NoCall EXCEPT !.op = "load_model", !.model_name = model_name,
                                  !.flag = download_if_missing, !.raised = r.raised,
                                  !.cause = r.cause, !.ret = r.ret,
                                  !.progress = r.progress, !.hub = r.hub,
                                  !.looked_up = r.looked_up]
        /\ UNCHANGED <<taVars, uiVars, utilVars>>

DeleteModel ==
    \E model_name \in ModelIds, rm \in BOOLEAN :
        LET d == delete_model(metadata, disk, model_name, rm) IN
        /\ ~is_model_cached(model_name) => rm
        /\ metadata' = d.metadata
        /\ disk' = d.disk
        /\ last' = [NoCall EXCEPT !.op = "delete_model", !.model_name = model_name,
                                  !.flag = rm, !.ret = [value |-> d.ret]]
        /\ UNCHANGED <<clock, taVars, uiVars, utilVars>>

ClearCache ==
    \E fails \in SUBSET Keys(metadata) :
        LET d == clear_cache(metadata, disk, fails) IN
        /\ metadata' = d.metadata
        /\ disk' = d.disk
        /\ last' = [NoCall EXCEPT !.op = "clear_cache", !.ret = [value |-> d.ret]]
        /\ UNCHANGED <<clock, taVars, uiVars, utilVars>>

IsModelCached ==
    \E model_name \in ModelIds :
        /\ last' = [NoCall EXCEPT !.op = "is_model_cached", !.model_name = model_name,
                                  !.ret = [value |-> is_model_cached(model_name)]]
        /\ UNCHANGED <<mmVars, taVars, uiVars, utilVars>>

GetModelPath ==
    \E model_name \in ModelIds :
        /\ last' = [NoCall EXCEPT !.op = "get_model_path", !.model_name = model_name,
                                  !.ret = get_model_path(model_name)]
        /\ UNCHANGED <<mmVars, taVars, uiVars, utilVars>>

\* The environment: a directory is removed, or a local model directory is
\* created, behind the program's back.
EnvRemoveDir ==
    \E path \in Paths :
        /\ disk[path] # None
        /\ disk' = [disk EXCEPT ![path] = None]
        /\ last' = [NoCall EXCEPT !.op = "env_remove_dir", !.ret = path]
        /\ UNCHANGED <<metadata, clock, taVars, uiVars, utilVars>>

EnvCreateLocalDir ==
    \E model_name \in LocalNames :
        /\ disk[LocalPath(model_name)] = None
        /\ disk' = [disk EXCEPT ![LocalPath(model_name)] = [repo |-> model_name]]
        /\ last' = [NoCall EXCEPT !.op = "env_create_dir", !.ret = LocalPath(model_name)]
        /\ UNCHANGED <<metadata, clock, taVars, uiVars, utilVars>>

NextMM ==
    \/ DownloadModel
    \/ LoadModel
    \/ DeleteModel
    \/ ClearCache
    \/ IsModelCached
    \/ GetModelPath
    \/ EnvRemoveDir
    \/ EnvCreateLocalDir

SpecMM == Init /\ [][NextMM]_vars

(***************************************************************************)
(* Actions of the TopicAnalyzer and the VisualizationGenerator.            *)
(***************************************************************************)
EmbeddingModels == {IdAB, IdM}
EmbeddingDocs == {DocsY, DocsYZ, DocsQ}
TopicIds == {0, 1}
AbsentArtifacts == {"params"}
TrainDocs == {DocsQ}

\* The environment choices a call can tell apart.
GenEnvsFor(md, dk, cache, documents, name, use_cache) ==
    {g \in GenEnvs :
        /\ (~use_cache \/ cache[get_embedding_cache_path(documents)] = None) => g.read_ok
        /\ ~use_cache => g.write_ok
        /\ gen_cache_hit(cache, documents, use_cache, g) => g = QuietGen
        /\ ~load_downloads(md, dk, name, TRUE) => g.e = QuietEnv
        /\ g.e.hub # "ok" => g.write_ok
        /\ ~g.st => g.write_ok}

WithinCalls == history.calls < MaxCalls

Called(h) == [h EXCEPT !.calls = h.calls + 1]

\* TopicAnalyzer(): a new analyzer replaces the one in use.
NewAnalyzer ==
    /\ analyzer' = NewTopicAnalyzer
    /\ history' = [NewHistory EXCEPT !.calls = history.calls]
    /\ last' = [NoCall EXCEPT !.op = "new_analyzer"]
    /\ UNCHANGED <<mmVars, emb_cache, saved, uiVars, utilVars>>

GenerateEmbeddings ==
    \E documents \in EmbeddingDocs, name \in EmbeddingModels, use_cache \in BOOLEAN :
    \E g \in GenEnvsFor(metadata, disk, emb_cache, documents, name, use_cache) :
    \E r \in {generate_embeddings(metadata, disk, clock, emb_cache, documents,
                                  name, use_cache, g)} :
        /\ r.clock # clock => clock < MaxClock
        /\ metadata' = r.metadata
        /\ disk' = r.disk
        /\ clock' = r.clock
        /\ emb_cache' = r.emb_cache
        /\ last' = [NoCall EXCEPT !.op = "generate_embeddings", !.model_name = name,
                                  !.flag = use_cache, !.documents = documents,
                                  !.raised = r.raised, !.ret = r.ret,
                                  !.progress = r.progress, !.hub = r.hub,
                                  !.read_ok = g.read_ok, !.loaded = r.loaded,
                                  !.encoded = r.encoded]
        /\ UNCHANGED <<analyzer, saved, history, uiVars, utilVars>>

\* Whether a call of train got as far as fit_transform.
reaches_fit(r) == \E i \in DOMAIN r.progress : r.progress[i] = 40

Train ==
    /\ WithinCalls
    /\ \E documents \in TrainDocs, params \in ParamChoices, given \in BOOLEAN,
          outcome \in FitOutcomes :
       \E g \in IF given THEN {QuietGen}
                ELSE GenEnvsFor(metadata, disk, emb_cache, documents,
                                train_params(params).embedding_model, TRUE) :
       \E r \in {train(analyzer, metadata, disk, clock, emb_cache, documents,
                    IF given
                    THEN encode([weights |-> train_params(params).embedding_model],
                                documents)
                    ELSE None,
                    params, g, outcome)} :
        /\ ~reaches_fit(r) => outcome = "fails"
        /\ r.clock # clock => clock < MaxClock
        /\ analyzer' = r.analyzer
        /\ metadata' = r.metadata
        /\ disk' = r.disk
        /\ clock' = r.clock
        /\ emb_cache' = r.emb_cache
        /\ history' = Called(IF r.raised = None
                             THEN [history EXCEPT !.completed = TRUE, !.origin = "train"]
                             ELSE IF reaches_fit(r)
                             THEN [history EXCEPT !.origin = "failed_train"]
                             ELSE history)
        /\ last' = [NoCall EXCEPT
                        !.op = "train", !.raised = r.raised, !.ret = r.ret,
                        !.args = IF r.raised = None
                                 THEN [topics_found |-> topics_found(r.ret.topics)]
                                 ELSE None]
        /\ UNCHANGED <<saved, uiVars, utilVars>>

GetTopicInfo ==
    \E r \in {get_topic_info(analyzer)} :
    /\ last' = [NoCall EXCEPT !.op = "get_topic_info", !.raised = r.raised, !.ret = r.ret]
    /\ UNCHANGED <<mmVars, taVars, uiVars, utilVars>>

GetTopicWords ==
    \E topic_id \in TopicIds :
    \E r \in {get_topic_words(analyzer, topic_id, 10)} :
        /\ last' = [NoCall EXCEPT !.op = "get_topic_words", !.raised = r.raised,
                                  !.ret = r.ret]
        /\ UNCHANGED <<mmVars, taVars, uiVars, utilVars>>

GetDocumentTopics ==
    \E r \in {get_document_topics(analyzer)} :
    /\ last' = [NoCall EXCEPT !.op = "get_document_topics", !.raised = r.raised,
                              !.ret = r.ret]
    /\ UNCHANGED <<mmVars, taVars, uiVars, utilVars>>

SaveModel ==
    /\ WithinCalls
    /\ \E name \in SaveNames :
       \E r \in {save_model(analyzer, saved, name)} :
        /\ saved' = r.saved
        /\ last' = [NoCall EXCEPT !.op = "save_model", !.raised = r.raised,
                                  !.ret = r.ret, !.written = r.written]
        /\ history' = Called(history)
        /\ UNCHANGED <<mmVars, emb_cache, analyzer, uiVars, utilVars>>

AnalyzerLoadModel ==
    /\ WithinCalls
    /\ \E name \in SaveNames, bad \in LoadFaults :
       \E r \in {analyzer_load_model(analyzer, saved, name, bad)} :
        /\ bad # "none" => (saved[name] # None /\ saved[name][bad] # None)
        /\ analyzer' = r.analyzer
        /\ history' = Called(IF r.raised = None
                             THEN [history EXCEPT !.completed = TRUE, !.origin = "load"]
                             ELSE IF r.analyzer # analyzer
                             THEN [history EXCEPT !.origin = "failed_load"]
                             ELSE history)
        /\ last' = [NoCall EXCEPT !.op = "analyzer_load_model", !.raised = r.raised]
        /\ UNCHANGED <<mmVars, emb_cache, saved, uiVars, utilVars>>

VisualizationGeneratorInit ==
    \E r \in {visualization_generator_init(analyzer)} :
    /\ last' = [NoCall EXCEPT !.op = "visualization_generator_init",
                              !.raised = r.raised, !.ret = r.ret]
    /\ UNCHANGED <<mmVars, taVars, uiVars, utilVars>>

\* The environment: a model directory loses its params.json (load_model
\* treats the file as optional).
EnvRemoveArtifact ==
    \E name \in SaveNames, k \in AbsentArtifacts :
        /\ saved[name] # None
        /\ saved[name][k] # None
        /\ saved' = [saved EXCEPT ![name][k] = None]
        /\ last' = [NoCall EXCEPT !.op = "env_remove_artifact"]
        /\ UNCHANGED <<mmVars, emb_cache, analyzer, history, uiVars, utilVars>>

NextTA ==
    \/ NewAnalyzer
    \/ Train
    \/ GetTopicInfo
    \/ GetTopicWords
    \/ GetDocumentTopics
    \/ SaveModel
    \/ AnalyzerLoadModel
    \/ VisualizationGeneratorInit
    \/ EnvRemoveArtifact

SpecTA == Init /\ [][NextTA]_vars

NextEmb == GenerateEmbeddings

SpecEmb == Init /\ [][NextEmb]_vars

(***************************************************************************)
(* Properties of the ModelManager.                                         *)
(***************************************************************************)

\* What the specification calls cached: a record exists and its path exists.
RecordedAndOnDisk(md, dk, model_name) ==
    \E i \in 1..Len(md) :
        /\ md[i].model_name = model_name
        /\ md[i].model_path \in Paths
        /\ dk[md[i].model_path] # None

NotFoundUpstream == Exc("ValueError", "not found on HuggingFace Hub")
HubHttpError == Exc("Exception", "HTTP error downloading model")
NotCachedError == Exc("ValueError", "not cached and download_if_missing=False")

\* C1: when download_model(m) returns normally, forced or not and after any
\* earlier downloads and deletes, is_model_cached(m) is true and
\* get_model_path(m) is the directory download_model returned, which exists.
C1_DownloadThenCached ==
    (last.op = "download_model" /\ last.raised = None) =>
        /\ is_model_cached(last.model_name)
        /\ get_model_path(last.model_name) = last.ret
        /\ last.ret \in Paths
        /\ disk[last.ret] # None

\* C1 witness: a forced download of a model that was already recorded returned.
C1_Witness ==
    /\ last.op = "download_model"
    /\ last.raised = None
    /\ last.force
    /\ last.hub
    /\ Len(metadata) = 2

\* C2: a download_model(m) without force that directly follows a successful
\* download_model(m) makes no hub call, reports 100 as its only progress value,
\* returns the same path and leaves the metadata unchanged.
C2_SecondDownloadIsCached ==
    [][ (/\ last.op = "download_model"
         /\ last.raised = None
         /\ last'.op = "download_model"
         /\ last'.model_name = last.model_name
         /\ ~last'.force)
        => (/\ ~last'.hub
            /\ last'.progress = <<100>>
            /\ last'.raised = None
            /\ last'.ret = last.ret
            /\ metadata' = metadata) ]_vars

\* C2 witness: a download that never reached the hub and reported 100 only.
C2_Witness ==
    /\ last.op = "download_model"
    /\ ~last.force
    /\ ~last.hub
    /\ last.progress = <<100>>
    /\ last.ret = CachePath(last.model_name)

\* C3 as stated: delete_model(m) on an uncached id returns false and changes
\* nothing; on a cached id it removes directory and metadata entry, returns
\* true and is_model_cached(m) is false afterwards; a second call returns false.
\* Read in the claim's favour: only calls in which shutil.rmtree does not fail.
C3_AsStated ==
    [][ (last'.op = "delete_model" /\ last'.flag) =>
            LET m == last'.model_name IN
            /\ ~is_model_cached(m) =>
                   /\ last'.ret = [value |-> FALSE]
                   /\ metadata' = metadata
                   /\ disk' = disk
            /\ is_model_cached(m) =>
                   /\ last'.ret = [value |-> TRUE]
                   /\ ~HasKey(metadata', m)
                   /\ disk'[Lookup(metadata, m).model_path] = None
                   /\ ~is_model_cached_in(metadata', disk', m)
            /\ (last.op = "delete_model" /\ last.model_name = m /\ last.flag) =>
                   last'.ret = [value |-> FALSE] ]_vars

\* C3 amended: delete_model(m) on an id without a metadata record returns
\* false and changes nothing; on an id with a record, unless removing an
\* existing directory fails, it removes the directory and the record and
\* returns true, also when the directory was already gone; when removing the
\* directory fails it returns false and changes nothing.  After a call that
\* returned true is_model_cached(m) is false and a second call returns false.
C3_DeleteByRecord ==
    [][ last'.op = "delete_model" =>
            LET m == last'.model_name
                rm == last'.flag
            IN
            /\ ~HasKey(metadata, m) =>
                   /\ last'.ret = [value |-> FALSE]
                   /\ metadata' = metadata
                   /\ disk' = disk
            /\ (HasKey(metadata, m) /\ (rm \/ ~is_model_cached(m))) =>
                   /\ last'.ret = [value |-> TRUE]
                   /\ ~HasKey(metadata', m)
                   /\ disk'[Lookup(metadata, m).model_path] = None
                   /\ ~is_model_cached_in(metadata', disk', m)
            /\ (is_model_cached(m) /\ ~rm) =>
                   /\ last'.ret = [value |-> FALSE]
                   /\ metadata' = metadata
                   /\ disk' = disk
            /\ (last.op = "delete_model" /\ last.model_name = m
                    /\ last.ret = [value |-> TRUE]) =>
                   last'.ret = [value |-> FALSE] ]_vars

\* C3 witness: a delete returned true for a record whose directory is gone
\* while another record is still held.
C3_Witness ==
    /\ last.op = "delete_model"
    /\ last.ret = [value |-> TRUE]
    /\ ~HasKey(metadata, last.model_name)
    /\ Len(metadata) = 1

\* C4: is_model_cached(id) is true iff a record for id exists and its recorded
\* path exists on disk; once the directory is removed out-of-band the answer is
\* false while the record stays; get_model_path(id) is None exactly when
\* is_model_cached(id) is false, and the recorded path otherwise.
C4_CachedIffRecordAndDir ==
    /\ last.op = "is_model_cached" =>
           last.ret = [value |-> RecordedAndOnDisk(metadata, disk, last.model_name)]
    /\ last.op = "get_model_path" =>
           /\ (last.ret = None) = ~RecordedAndOnDisk(metadata, disk, last.model_name)
           /\ last.ret # None => last.ret = Lookup(metadata, last.model_name).model_path
    /\ last.op = "env_remove_dir" =>
           \A m \in Keys(metadata) :
               Lookup(metadata, m).model_path = last.ret => ~is_model_cached(m)

\* C4 witness: is_model_cached answered false for an id whose record exists.
C4_Witness ==
    /\ last.op = "is_model_cached"
    /\ last.ret = [value |-> FALSE]
    /\ HasKey(metadata, last.model_name)

\* C5: load_model(id, download_if_missing): an existing local path is loaded
\* directly, with no cache lookup and no download; otherwise a cached id is
\* loaded from its recorded path; otherwise with download_if_missing it is
\* downloaded and loaded from the cache; otherwise the call fails with the
\* 'not cached' error, without hub access and without changing the metadata.
C5_LoadModelResolution ==
    [][ last'.op = "load_model" =>
            LET m == last'.model_name
                loaded == last'.raised = None
            IN
            IF exists_in(disk, LocalPath(m))
            THEN /\ ~last'.looked_up
                 /\ ~last'.hub
                 /\ loaded => last'.ret.path = LocalPath(m)
                 /\ UNCHANGED mmVars
            ELSE IF RecordedAndOnDisk(metadata, disk, m)
            THEN /\ ~last'.hub
                 /\ loaded => last'.ret.path = Lookup(metadata, m).model_path
                 /\ UNCHANGED mmVars
            ELSE IF last'.flag
            THEN /\ last'.hub
                 /\ loaded =>
                        /\ last'.ret.path = CachePath(m)
                        /\ is_model_cached_in(metadata', disk', m)
            ELSE /\ last'.raised = NotCachedError
                 /\ ~last'.hub
                 /\ UNCHANGED mmVars ]_vars

\* C5 witness: load_model read a model from a local directory while a record
\* of the same name was cached.
C5_Witness ==
    /\ last.op = "load_model"
    /\ last.raised = None
    /\ last.ret.path = LocalPath(last.model_name)
    /\ is_model_cached(last.model_name)

\* C6: a failing download_model ends in exactly one of three outcomes, chosen
\* by the kind of the underlying failure: not found upstream, HTTP error, or
\* the unknown failure itself; it returns no path.
C6_TypedDownloadFailures ==
    (last.op = "download_model" /\ last.raised # None) =>
        /\ last.ret = None
        /\ last.cause # None
        /\ isinstance(last.cause, "RepositoryNotFoundError") <=>
               last.raised = NotFoundUpstream
        /\ (isinstance(last.cause, "HfHubHTTPError")
                /\ ~isinstance(last.cause, "RepositoryNotFoundError")) <=>
               last.raised = HubHttpError
        /\ ~isinstance(last.cause, "HfHubHTTPError") <=>
               (last.raised = last.cause /\ last.raised \notin {NotFoundUpstream, HubHttpError})

\* C6 witness: a download failed because the repository does not exist.
C6_Witness ==
    /\ last.op = "download_model"
    /\ last.cause = Exc("RepositoryNotFoundError", "snapshot_download")
    /\ last.raised = NotFoundUpstream

(***************************************************************************)
(* Properties of the TopicAnalyzer and the VisualizationGenerator.         *)
(***************************************************************************)
SameFirstDocs(d1, d2) == Prefix(d1, FingerprintDocs) = Prefix(d2, FingerprintDocs)

\* What a call generate_embeddings(documents, name, use_cache=True) does when it
\* takes the stored matrix: returns it, loads and invokes no model, reaches
\* neither the hub nor the metadata, and leaves the cache as it was.
ReturnsStored(stored) ==
    /\ last'.raised = None
    /\ last'.ret = stored
    /\ ~last'.loaded
    /\ ~last'.encoded
    /\ ~last'.hub
    /\ last'.progress = <<100>>
    /\ UNCHANGED <<metadata, disk, clock, emb_cache>>

\* C7 as stated: generate_embeddings(documents, model_id, use_cache=true)
\* returns the stored matrix, without loading or invoking the embedding model,
\* whenever a cache entry exists for the fingerprint of documents; document
\* lists that agree on their first 100 entries share one fingerprint, and the
\* second call returns the matrix stored by the first.
C7_AsStated ==
    [][ (last'.op = "generate_embeddings" /\ last'.flag) =>
            LET documents == last'.documents
                cache_path == get_embedding_cache_path(documents)
            IN
            /\ emb_cache[cache_path] # None => ReturnsStored(emb_cache[cache_path])
            /\ \A d1, d2 \in DocSets :
                   SameFirstDocs(d1, d2) =>
                       get_embedding_cache_path(d1) = get_embedding_cache_path(d2)
            /\ (/\ last.op = "generate_embeddings"
                /\ last.flag
                /\ last.encoded
                /\ emb_cache[get_embedding_cache_path(last.documents)] = last.ret
                /\ SameFirstDocs(last.documents, documents)) =>
                   last'.ret = last.ret ]_vars

\* C7 amended: generate_embeddings(documents, model_id, use_cache=true) returns
\* the stored matrix, without loading or invoking the embedding model, whenever
\* a cache entry exists for the fingerprint of documents and the entry can be
\* read; an entry that cannot be read is treated as absent and the embeddings
\* are generated by the model.  Document lists that agree on their first 100
\* entries share one fingerprint, and the second call returns the matrix
\* stored by the first when it can read it.
C7_CacheHitReturnsStored ==
    [][ (last'.op = "generate_embeddings" /\ last'.flag) =>
            LET documents == last'.documents
                cache_path == get_embedding_cache_path(documents)
            IN
            /\ (emb_cache[cache_path] # None /\ last'.read_ok) =>
                   ReturnsStored(emb_cache[cache_path])
            /\ (emb_cache[cache_path] # None /\ ~last'.read_ok /\ last'.raised = None) =>
                   /\ last'.loaded
                   /\ last'.encoded
                   /\ last'.ret.rows = documents
            /\ \A d1, d2 \in DocSets :
                   SameFirstDocs(d1, d2) =>
                       get_embedding_cache_path(d1) = get_embedding_cache_path(d2)
            /\ (/\ last.op = "generate_embeddings"
                /\ last.flag
                /\ last.encoded
                /\ emb_cache[get_embedding_cache_path(last.documents)] = last.ret
                /\ SameFirstDocs(last.documents, documents)
                /\ last'.read_ok) =>
                   last'.ret = last.ret ]_vars

\* C7 witness: a call returned, without loading a model, a matrix whose rows
\* are those of a different document list with the same first 100 documents.
C7_Witness ==
    /\ last.op = "generate_embeddings"
    /\ last.flag
    /\ last.raised = None
    /\ ~last.loaded
    /\ last.ret.rows # last.documents
    /\ SameFirstDocs(last.ret.rows, last.documents)

\* Whether the analyzer holds a fitted model.
holds_fitted_model(a) == IF a.model = None THEN FALSE ELSE a.model.fitted

\* C8 as stated: a train() that fails on an analyzer holding a fitted model, and
\* a load_model() that fails, leave model, params, documents, embeddings,
\* topics and probabilities exactly as they were; a download_model() that
\* fails leaves the metadata mapping exactly as it was.
C8_AsStated ==
    [][ /\ (last'.op = "train" /\ last'.raised # None /\ holds_fitted_model(analyzer)) =>
               analyzer' = analyzer
        /\ (last'.op = "analyzer_load_model" /\ last'.raised # None) =>
               analyzer' = analyzer
        /\ (last'.op = "download_model" /\ last'.raised # None) =>
               metadata' = metadata ]_vars

AccessorOps == {"get_topic_info", "get_topic_words", "get_document_topics"}

Sentinel(op) == IF op = "get_topic_words" THEN [words |-> <<>>] ELSE None

\* C9 as stated: on an analyzer that has not completed a successful train() or
\* load_model(), also after a train() that failed, get_topic_info(),
\* get_topic_words() and get_document_topics() raise nothing and return None,
\* [] and None.
C9_AsStated ==
    (last.op \in AccessorOps /\ ~history.completed) =>
        /\ last.raised = None
        /\ last.ret = Sentinel(last.op)

\* C10 as stated: on an analyzer that has not been fitted, constructing a
\* VisualizationGenerator raises, and save_model() raises before any directory
\* or file is created; save_model() on an analyzer whose model was obtained by
\* a successful train() or load_model() does not fail after writing only some
\* of its artifacts.
C10_AsStated ==
    [][ /\ (last'.op = "visualization_generator_init" /\ ~holds_fitted_model(analyzer)) =>
               last'.raised # None
        /\ (last'.op = "save_model" /\ ~holds_fitted_model(analyzer)) =>
               /\ last'.raised # None
               /\ saved' = saved
        /\ (last'.op = "save_model" /\ history.origin \in {"train", "load"}
                /\ last'.raised # None) =>
               /\ last'.written = {}
               /\ saved' = saved ]_vars

\* The analyzer a new TopicAnalyzer becomes by load_model of the directory the
\* last save_model returned, every file being readable.
LoadedBack == analyzer_load_model(NewTopicAnalyzer, saved, last.ret.dir, "none")

\* C11 as stated: after save_model on a fitted analyzer A, load_model of the
\* returned directory into a fresh analyzer B succeeds and gives B.topics =
\* A.topics, B.embeddings = A.embeddings, B.params equal to A.params in every
\* field, and the same fitted pipeline.
C11_AsStated ==
    (last.op = "save_model" /\ last.raised = None /\ holds_fitted_model(analyzer)) =>
        /\ LoadedBack.raised = None
        /\ LoadedBack.analyzer.topics = analyzer.topics
        /\ LoadedBack.analyzer.embeddings = analyzer.embeddings
        /\ \A k \in CtorParams : LoadedBack.analyzer.params[k] = analyzer.params[k]
        /\ LoadedBack.analyzer.model = analyzer.model

\* C12 as stated: when load_model returns, the analyzer's topics and embeddings
\* are exactly the artifacts stored in the directory, unset where the file is
\* missing (no value left from an earlier train or load on the same analyzer),
\* and a directory without the pipeline artifact makes the call fail.
C12_AsStated ==
    [][last'.op = "analyzer_load_model" =>
          \A name \in SaveNames :
              LET dir == IF saved[name] = None THEN EmptyDir ELSE saved[name] IN
              /\ dir.model = None => last'.raised # None
              /\ last'.raised = None =>
                    /\ analyzer'.topics = dir.topics
                    /\ analyzer'.embeddings = dir.embeddings]_vars

(***************************************************************************)
(* TopicModelParams on its own: an analyzer holding an arbitrary parameter *)
(* record, and the conversion to a dictionary and back.                    *)
(***************************************************************************)
ParamInputs ==
    [embedding_model : {IdAB, IdM},
     umap_n_neighbors : {15, 5}, umap_n_components : {5, 2},
     umap_min_dist : {0, 1}, umap_metric : {"cosine", "euclidean"},
     hdbscan_min_cluster_size : {10, 2}, hdbscan_min_samples : {10, 1},
     hdbscan_metric : {"euclidean", "manhattan"},
     top_n_words : {10, 20},
     ngram_range : {PyTuple(<<1, 2>>), PyTuple(<<1, 1>>)},
     min_topic_size : {10, 5},
     nr_topics : {None, [int |-> 5]},
     calculate_probabilities : BOOLEAN, verbose : BOOLEAN]

InitParams ==
    /\ metadata = <<>>
    /\ disk = [p \in Paths |-> None]
    /\ clock = 0
    /\ emb_cache = [p \in CachePaths |-> None]
    /\ \E kwargs \in ParamInputs :
          analyzer = [NewTopicAnalyzer EXCEPT !.params = TopicModelParams(kwargs)]
    /\ saved = [n \in SaveNames |-> None]
    /\ history = NewHistory
    /\ last = NoCall
    /\ workers = <<>>
    /\ gui = NewGui
    /\ events = <<>>
    /\ processor = NewTextProcessor
    /\ config = NewConfig
    /\ managers = NewManagers

\* TopicModelParams.from_dict(p.to_dict()) for the record p the analyzer holds.
ParamsRoundTrip ==
    \E d \in {to_dict(analyzer.params)} :
    \E r \in {from_dict(d)} :
    /\ last' = IF "type" \in DOMAIN r
               THEN [NoCall EXCEPT !.op = "from_dict", !.raised = r,
                                   !.written = DOMAIN d]
               ELSE [NoCall EXCEPT !.op = "from_dict", !.ret = r,
                                   !.written = DOMAIN d]
    /\ UNCHANGED <<mmVars, taVars, uiVars, utilVars>>

NextParams == ParamsRoundTrip

SpecParams == InitParams /\ [][NextParams]_vars

\* C13: for every parameter record p, from_dict(p.to_dict()) is built without
\* an error and has every field equal to the field of p, and to_dict emits
\* exactly the constructor's parameters.
C13_RoundTrip ==
    last.op = "from_dict" =>
        /\ last.raised = None
        /\ last.written = CtorParams
        /\ \A k \in CtorParams : last.ret[k] = analyzer.params[k]

\* A record that differs from the defaults in every field has been converted
\* and rebuilt.
C13_Witness ==
    /\ last.op = "from_dict"
    /\ last.raised = None
    /\ \A k \in CtorParams : last.ret[k] # CtorDefaults[k]

(***************************************************************************)
(* Workers and the tabs that start them.  A worker is [kind, args, pc,     *)
(* is_cancelled, emitted]: pc is the position of run() ("created" before   *)
(* the thread runs it, "operated" when the operation has returned,         *)
(* "checked" before emit_finished, "done" after run() returned), emitted   *)
(* the finished and error signals it has emitted, in order, cancelled_at   *)
(* the position run() was at when cancel() was called.  The progress       *)
(* and status signals change the progress bar and the status line only and *)
(* are left out.  A data frame is [columns |-> the names of its columns].  *)
(***************************************************************************)
MaxWorkers == 2

\* BaseWorker.__init__
BaseWorker(kind, args) ==
    [kind |-> kind, args |-> args, pc |-> "created", is_cancelled |-> FALSE,
     emitted |-> <<>>, cancelled_at |-> "never"]

\* BaseWorker.cancel
cancel(w) == [w EXCEPT !.is_cancelled = TRUE, !.cancelled_at = w.pc]

\* emit_finished without the test of the cancellation flag.
emit_finished_unconditionally(w) == [w EXCEPT !.emitted = Append(@, "finished")]

\* BaseWorker.emit_finished
emit_finished(w) ==
    IF ~w.is_cancelled THEN [w EXCEPT !.emitted = Append(@, "finished")] ELSE w

\* BaseWorker.emit_error
emit_error(w) == [w EXCEPT !.emitted = Append(@, "error")]

\* run() whose except clause does not end it: emit_finished still follows.
run_operation_continues_after_error(w, raised) ==
    IF raised THEN [emit_error(w) EXCEPT !.pc = "checked"]
    ELSE [w EXCEPT !.pc = IF w.kind = "processing" THEN "checked" ELSE "operated"]

\* run(), from its start to the return of the operation: an exception is
\* reported by emit_error and ends the run; ProcessingWorker.run goes on to
\* emit_finished, the other workers to the test of the cancellation flag.
run_operation(w, raised) ==
    IF raised THEN [emit_error(w) EXCEPT !.pc = "done"]
    ELSE [w EXCEPT !.pc = IF w.kind = "processing" THEN "checked" ELSE "operated"]

\* run(): `if self._is_cancelled: ... return`
run_check(w) == [w EXCEPT !.pc = IF w.is_cancelled THEN "done" ELSE "checked"]

\* run(): self.emit_finished(result), the last statement.
run_emit(w) == [emit_finished(w) EXCEPT !.pc = "done"]

\* The tabs connect finished and error of the workers they create; the
\* connections are queued, the handlers run in the GUI thread.
Connected(w) == w.kind \in {"download", "training", "processing"}

\* The queue after worker i went from w0 to w1.
Posted(q, i, w0, w1) ==
    IF Connected(w1) /\ Len(w1.emitted) > Len(w0.emitted)
    THEN Append(q, [worker |-> i, signal |-> w1.emitted[Len(w1.emitted)]])
    ELSE q

\* MainWindow.on_data_loaded and ModelingTab.set_processed_data
set_processed_data(g, df) == [g EXCEPT !.processed_data = df, !.train_btn = TRUE]

on_data_loaded(g, data) ==
    IF "text_processed" \in data.columns THEN set_processed_data(g, data) ELSE g

\* The files load_file is given: not valid, not readable, or a table with
\* the columns "text" and "body".
Files ==
    {[valid |-> FALSE, readable |-> FALSE, columns |-> {}],
     [valid |-> TRUE, readable |-> FALSE, columns |-> {}],
     [valid |-> TRUE, readable |-> TRUE, columns |-> {"text", "body"}]}

\* PreprocessTab.load_file
load_file(g, file) ==
    IF ~file.valid \/ ~file.readable THEN g
    ELSE on_data_loaded([g EXCEPT !.current_df = [columns |-> file.columns],
                                  !.process_btn = TRUE],
                        [columns |-> file.columns])

\* TextProcessor.process_dataframe: the output column is named after the input.
process_dataframe(df, text_column) ==
    [columns |-> df.columns \cup {text_column \o "_processed"}]

\* PreprocessTab.start_processing, after its validations.
start_processing(g, id) == [g EXCEPT !.preprocess_worker = id, !.process_btn = FALSE, !.threads = @ \cup {id}]

\* PreprocessTab.on_processing_finished
on_processing_finished(g, result) ==
    [on_data_loaded(g, result) EXCEPT !.process_btn = TRUE, !.save_btn = TRUE]

\* on_processing_error that leaves the button as it is.
on_processing_error_keeps_button(g) == g

\* PreprocessTab.on_processing_error
on_processing_error(g) == [g EXCEPT !.process_btn = TRUE]

\* ModelingTab.download_model, after its validations.
gui_download_model(g, id) == [g EXCEPT !.modeling_worker = id, !.download_btn = FALSE, !.threads = @ \cup {id}]

\* ModelingTab.on_download_finished
on_download_finished(g) == [g EXCEPT !.download_btn = TRUE]

\* ModelingTab.on_download_error
on_download_error(g) == [g EXCEPT !.download_btn = TRUE]

\* ModelingTab.start_training, after its validations.
start_training(g, id) == [g EXCEPT !.modeling_worker = id, !.train_btn = FALSE, !.threads = @ \cup {id}]

\* ModelingTab.on_training_finished
on_training_finished(g) == [g EXCEPT !.train_btn = TRUE, !.save_model_btn = TRUE]

\* num_topics = len(topic_info) - 1: topic_info has one row per label.
num_topics(topic_info) == Cardinality(topic_info.topic_labels) - 1

\* ModelingTab.on_training_error
on_training_error(g) == [g EXCEPT !.train_btn = TRUE]

\* The slot connected to the signal of a worker.
Slot(g, w, signal) ==
    IF w.kind = "download"
    THEN IF signal = "finished" THEN on_download_finished(g) ELSE on_download_error(g)
    ELSE IF w.kind = "training"
    THEN IF signal = "finished" THEN on_training_finished(g) ELSE on_training_error(g)
    ELSE IF signal = "finished"
    THEN on_processing_finished(g, process_dataframe(w.args.df, w.args.text_column))
    ELSE on_processing_error(g)

\* worker_thread.quit
QThread_quit(g, id) == [g EXCEPT !.threads = @ \ {id}]

\* The slots connected to a signal of worker id, in the order of the connect
\* calls: finished runs the tab's handler and worker_thread.quit, error the
\* tab's handler only.
Deliver(g, w, id, signal) ==
    IF signal = "finished" THEN QThread_quit(Slot(g, w, signal), id) ELSE Slot(g, w, signal)

(***************************************************************************)
(* Actions of the user interface.  A click reaches its handler only while  *)
(* the button is enabled.                                                  *)
(***************************************************************************)
CanCreate == Len(workers) < MaxWorkers

NewId == Len(workers) + 1

LoadFile ==
    \E file \in Files :
        /\ gui' = load_file(gui, file)
        /\ UNCHANGED <<mmVars, taVars, last, workers, events, utilVars>>

\* start_processing returns early when the column is not valid.
StartProcessing ==
    /\ gui.process_btn
    /\ gui.current_df # None
    /\ CanCreate
    /\ \E text_column \in gui.current_df.columns :
        /\ workers' = Append(workers, BaseWorker("processing",
                                [df |-> gui.current_df, text_column |-> text_column]))
        /\ gui' = start_processing(gui, NewId)
    /\ UNCHANGED <<mmVars, taVars, last, events, utilVars>>

ClickDownload ==
    /\ gui.download_btn
    /\ CanCreate
    /\ workers' = Append(workers, BaseWorker("download", [model_name |-> IdAB]))
    /\ gui' = gui_download_model(gui, NewId)
    /\ UNCHANGED <<mmVars, taVars, last, events, utilVars>>

\* start_training replaces the tab's analyzer by a new one.
StartTraining ==
    /\ gui.train_btn
    /\ gui.processed_data # None
    /\ "text_processed" \in gui.processed_data.columns
    /\ CanCreate
    /\ workers' = Append(workers, BaseWorker("training", [documents |-> DocsQ]))
    /\ gui' = start_training(gui, NewId)
    /\ analyzer' = NewTopicAnalyzer
    /\ UNCHANGED <<mmVars, emb_cache, saved, history, last, events, utilVars>>

\* An EmbeddingWorker is created and started; no tab does.
StartEmbeddingWorker ==
    /\ CanCreate
    /\ workers' = Append(workers, BaseWorker("embedding",
                            [documents |-> DocsQ, embedding_model_name |-> IdAB]))
    /\ UNCHANGED <<mmVars, taVars, last, gui, events, utilVars>>

\* worker.cancel(), from any thread, at any time before run() has returned.
Cancel ==
    \E i \in DOMAIN workers :
        /\ ~workers[i].is_cancelled
        /\ workers[i].pc # "done"
        /\ workers' = [workers EXCEPT ![i] = cancel(@)]
        /\ UNCHANGED <<mmVars, taVars, last, gui, events, utilVars>>

\* Worker i has run its operation, which raised or returned.
Ran(i, raised) ==
    \E w \in {run_operation(workers[i], raised)} :
        /\ workers' = [workers EXCEPT ![i] = w]
        /\ events' = Posted(events, i, workers[i], w)

RunDownload ==
    \E i \in DOMAIN workers :
        /\ workers[i].kind = "download"
        /\ workers[i].pc = "created"
        /\ clock < MaxClock
        /\ \E e \in DownloadEnvs :
           \E d \in {download_model(metadata, disk, clock, workers[i].args.model_name,
                                    FALSE, e)} :
            /\ download_cached(metadata, disk, clock, workers[i].args.model_name, FALSE)
                    => e = QuietEnv
            /\ metadata' = d.metadata
            /\ disk' = d.disk
            /\ clock' = d.clock
            /\ Ran(i, d.raised # None)
        /\ UNCHANGED <<taVars, last, gui, utilVars>>

RunEmbedding ==
    \E i \in DOMAIN workers :
        /\ workers[i].kind = "embedding"
        /\ workers[i].pc = "created"
        /\ \E g \in GenEnvsFor(metadata, disk, emb_cache, workers[i].args.documents,
                               workers[i].args.embedding_model_name, TRUE) :
           \E r \in {generate_embeddings(metadata, disk, clock, emb_cache,
                                         workers[i].args.documents,
                                         workers[i].args.embedding_model_name, TRUE, g)} :
            /\ r.clock # clock => clock < MaxClock
            /\ metadata' = r.metadata
            /\ disk' = r.disk
            /\ clock' = r.clock
            /\ emb_cache' = r.emb_cache
            /\ Ran(i, r.raised # None)
        /\ UNCHANGED <<analyzer, saved, history, last, gui, utilVars>>

RunTraining ==
    \E i \in DOMAIN workers :
        /\ workers[i].kind = "training"
        /\ workers[i].pc = "created"
        /\ \E outcome \in FitOutcomes :
           \E g \in GenEnvsFor(metadata, disk, emb_cache, workers[i].args.documents,
                               DefaultParams.embedding_model, TRUE) :
           \E r \in {train(analyzer, metadata, disk, clock, emb_cache,
                           workers[i].args.documents, None, DefaultParams, g, outcome)} :
            /\ ~reaches_fit(r) => outcome = "fails"
            /\ r.clock # clock => clock < MaxClock
            /\ analyzer' = r.analyzer
            /\ metadata' = r.metadata
            /\ disk' = r.disk
            /\ clock' = r.clock
            /\ emb_cache' = r.emb_cache
            /\ Ran(i, r.raised # None)
        /\ UNCHANGED <<saved, history, last, gui, utilVars>>

RunProcessing ==
    \E i \in DOMAIN workers :
        /\ workers[i].kind = "processing"
        /\ workers[i].pc = "created"
        /\ \E raised \in BOOLEAN : Ran(i, raised)
        /\ UNCHANGED <<mmVars, taVars, last, gui, utilVars>>

CheckCancelled ==
    \E i \in DOMAIN workers :
        /\ workers[i].pc = "operated"
        /\ workers' = [workers EXCEPT ![i] = run_check(@)]
        /\ UNCHANGED <<mmVars, taVars, last, gui, events, utilVars>>

EmitFinished ==
    \E i \in DOMAIN workers :
        /\ workers[i].pc = "checked"
        /\ \E w \in {run_emit(workers[i])} :
            /\ workers' = [workers EXCEPT ![i] = w]
            /\ events' = Posted(events, i, workers[i], w)
        /\ UNCHANGED <<mmVars, taVars, last, gui, utilVars>>

\* The GUI thread takes the next queued signal and runs its slot.
Dispatch ==
    /\ events # <<>>
    /\ gui' = Deliver(gui, workers[Head(events).worker], Head(events).worker,
                      Head(events).signal)
    /\ events' = Tail(events)
    /\ UNCHANGED <<mmVars, taVars, last, workers, utilVars>>

NextUI ==
    \/ LoadFile
    \/ StartProcessing
    \/ ClickDownload
    \/ StartTraining
    \/ StartEmbeddingWorker
    \/ Cancel
    \/ RunDownload
    \/ RunEmbedding
    \/ RunTraining
    \/ RunProcessing
    \/ CheckCancelled
    \/ EmitFinished
    \/ Dispatch

SpecUI == Init /\ [][NextUI]_vars

\* The workers the tabs start, without the EmbeddingWorker no tab creates.
NextTabs ==
    \/ LoadFile
    \/ StartProcessing
    \/ ClickDownload
    \/ StartTraining
    \/ Cancel
    \/ RunDownload
    \/ RunTraining
    \/ RunProcessing
    \/ CheckCancelled
    \/ EmitFinished
    \/ Dispatch

\* The Qt event loop of the GUI thread delivers every queued signal.
SpecUILive == Init /\ [][NextTabs]_vars /\ WF_vars(Dispatch)

\* An error signal of a worker of this kind is queued for the GUI thread.
ErrorQueued(kind) ==
    \E k \in DOMAIN events :
        /\ events[k].signal = "error"
        /\ workers[events[k].worker].kind = kind

C14_OneTerminalSignal ==
    \A i \in DOMAIN workers :
        /\ Len(workers[i].emitted) <= 1
        /\ (workers[i].pc = "done" /\ ~workers[i].is_cancelled)
                => Len(workers[i].emitted) = 1

\* One run has ended with finished and another, cancelled, with no signal.
C14_Witness ==
    /\ \E i \in DOMAIN workers :
        workers[i].pc = "done" /\ workers[i].emitted = <<"finished">>
    /\ \E i \in DOMAIN workers :
        workers[i].pc = "done" /\ workers[i].is_cancelled /\ workers[i].emitted = <<>>

\* The steps of run() after the operation has returned.
EndsRun(i) ==
    /\ i \in DOMAIN workers'
    /\ workers[i].pc \in {"operated", "checked"}
    /\ workers'[i].pc # workers[i].pc

\* C15: a worker whose cancel() was called before its operation returned never
\* emits finished, and what the operation wrote (the embedding cache, the
\* downloaded model, the analyzer) is left as the operation left it.
C15_CancelledNeverFinishes ==
    /\ [](\A i \in DOMAIN workers :
            workers[i].cancelled_at = "created" => workers[i].emitted # <<"finished">>)
    /\ [][\A i \in DOMAIN workers :
            (workers[i].cancelled_at = "created" /\ EndsRun(i))
                => UNCHANGED <<mmVars, emb_cache, analyzer>>]_vars

\* An EmbeddingWorker was cancelled before generate_embeddings returned; the
\* call has stored the matrix in the cache and run() has ended.
C15_Witness ==
    \E i \in DOMAIN workers :
        /\ workers[i].kind = "embedding"
        /\ workers[i].cancelled_at = "created"
        /\ workers[i].pc = "done"
        /\ workers[i].emitted = <<>>
        /\ emb_cache[get_embedding_cache_path(workers[i].args.documents)] # None

\* The workers of a kind that run() has not left and that have emitted neither
\* finished nor error.
Active(kind) ==
    {i \in DOMAIN workers :
        /\ workers[i].kind = kind
        /\ workers[i].pc # "done"
        /\ workers[i].emitted = <<>>}

\* The button that starts the workers of a kind, and the reference of their tab.
Button(kind) ==
    IF kind = "download" THEN gui.download_btn
    ELSE IF kind = "training" THEN gui.train_btn
    ELSE gui.process_btn

WorkerRef(kind) ==
    IF kind = "processing" THEN gui.preprocess_worker ELSE gui.modeling_worker

\* C16 as stated: of the workers each operation of the GUI starts at most one
\* is active; while it is, the button that started it is disabled and the
\* tab's worker reference is the active worker.
C16_AsStated ==
    \A kind \in {"download", "training", "processing"} :
        /\ Cardinality(Active(kind)) <= 1
        /\ \A i \in Active(kind) :
            /\ ~Button(kind)
            /\ WorkerRef(kind) = i

\* The values are integers from 0 to 100 and never decrease.
Monotone(progress) ==
    /\ \A i \in DOMAIN progress : progress[i] \in 0..100
    /\ \A i, j \in DOMAIN progress : i < j => progress[i] <= progress[j]

\* C18 as stated: the progress values a call reports (download_model,
\* ModelManager.load_model with its download on a cache miss,
\* generate_embeddings, train) are integers from 0 to 100 that never decrease,
\* and a call that returns normally has reported 100 last.
C18_AsStated ==
    /\ Monotone(last.progress)
    /\ (last.op \in {"download_model", "load_model", "generate_embeddings"}
            /\ last.raised = None)
          => (last.progress # <<>> /\ last.progress[Len(last.progress)] = 100)

\* C19 as stated: the matrix generate_embeddings returns has one row for each
\* document of the call, whether it was read from the cache or encoded.
C19_AsStated ==
    (last.op = "generate_embeddings" /\ last.raised = None) =>
        Rows(last.ret) = Len(last.documents)

(***************************************************************************)
(* TextProcessor.  A text is a sequence of lexemes: a URL, an e-mail       *)
(* address, a number, a punctuation mark, a blank, or a word.  Each regex  *)
(* substitution of clean_text and the segmenter are given by what they do  *)
(* to each lexeme.                                                         *)
(***************************************************************************)
Url == "http://u"
Email == "a@b.c"
Number == "7"
Punctuation == "!"
Blank == " "

\* self.stopwords
stopwords == processor.stopwords

RECURSIVE FlatMap(_, _)
FlatMap(f, text) ==
    IF text = <<>> THEN <<>> ELSE f[Head(text)] \o FlatMap(f, Tail(text))

Lexemes == {Url, Email, Number, Punctuation, Blank, "The", "the", "cat", "a", "http", "u", "b", "c"}

\* pattern.sub(' ', text) for a pattern that matches the lexeme as a whole.
sub(match, text) == [i \in DOMAIN text |-> IF text[i] = match THEN Blank ELSE text[i]]

\* punctuation_pattern.sub(' ', text): every character that is neither a word
\* character nor white space becomes a blank, also inside a URL or an address.
punctuation_sub ==
    [x \in Lexemes |->
        IF x = Url THEN <<"http", Blank, Blank, Blank, "u">>
        ELSE IF x = Email THEN <<"a", Blank, "b", Blank, "c">>
        ELSE IF x = Punctuation THEN <<Blank>>
        ELSE <<x>>]

\* str.lower
lower == [x \in Lexemes |-> IF x = "The" THEN <<"the">> ELSE <<x>>]

\* whitespace_pattern.sub(' ', text).strip()
RECURSIVE collapse(_)
collapse(text) ==
    IF text = <<>> THEN <<>>
    ELSE IF Head(text) = Blank /\ (Len(text) = 1 \/ text[2] = Blank)
    THEN collapse(Tail(text))
    ELSE <<Head(text)>> \o collapse(Tail(text))

strip(text) == IF text # <<>> /\ Head(text) = Blank THEN Tail(text) ELSE text

\* A keyword argument, or its default.
Arg(kwargs, key, default) == IF key \in DOMAIN kwargs THEN kwargs[key] ELSE default

\* TextProcessor.clean_text(text, **options)
clean_text(text, options) ==
    LET t1 == IF Arg(options, "remove_urls", TRUE) THEN sub(Url, text) ELSE text
        t2 == IF Arg(options, "remove_emails", TRUE) THEN sub(Email, t1) ELSE t1
        t3 == IF Arg(options, "remove_numbers", FALSE) THEN sub(Number, t2) ELSE t2
        t4 == IF Arg(options, "remove_punctuation", TRUE)
              THEN FlatMap(punctuation_sub, t3) ELSE t3
        t5 == IF Arg(options, "lowercase", FALSE) THEN FlatMap(lower, t4) ELSE t4
    IN IF text = <<>> THEN <<>>
       ELSE IF Arg(options, "strip_whitespace", TRUE) THEN strip(collapse(t5)) ELSE t5

\* jieba.cut in precise mode: a run of letters and digits is one word, every
\* other character (a blank too) a token of its own.
jieba_cut ==
    [x \in Lexemes |->
        IF x = Url THEN <<"http", ":", "/", "/", "u">>
        ELSE IF x = Email THEN <<"a", "@", "b", ".", "c">>
        ELSE <<x>>]

\* TextProcessor.segment(text)
segment(text) == IF text = <<>> THEN <<>> ELSE FlatMap(jieba_cut, text)

\* TextProcessor.remove_stopwords(words)
remove_stopwords(words) == SelectSeq(words, LAMBDA word : word \notin processor.stopwords)

\* ' '.join(words)
RECURSIVE join_blank(_)
join_blank(words) ==
    IF Len(words) <= 1 THEN words
    ELSE <<Head(words), Blank>> \o join_blank(Tail(words))

DefaultCleanOptions ==
    [remove_urls |-> TRUE, remove_emails |-> TRUE, remove_punctuation |-> TRUE,
     lowercase |-> TRUE]

\* TextProcessor.process_text
process_text(text, do_segment, do_remove_stopwords, clean_options, min_word_length) ==
    LET cleaned == clean_text(text, IF clean_options = None THEN DefaultCleanOptions
                                    ELSE clean_options)
        words == segment(cleaned)
        kept == IF do_remove_stopwords THEN remove_stopwords(words) ELSE words
        long == IF min_word_length > 1
                THEN SelectSeq(kept, LAMBDA w : Len(w) >= min_word_length)
                ELSE kept
    IN IF text = <<>> THEN <<>>
       ELSE IF do_segment THEN join_blank(long)
       ELSE cleaned

\* The texts and the options of the calls.
Texts ==
    {<<>>,
     <<"The", Blank, "the", Blank, "cat", Punctuation>>,
     <<Blank, "the", Blank, Blank, "a", Blank, Number>>,
     <<Url, Blank, "the", Blank, Email>>}

CleanOptionChoices ==
    {None, [remove_numbers |-> TRUE], [strip_whitespace |-> FALSE]}
        \cup [{"remove_urls", "remove_emails", "remove_punctuation", "lowercase"} -> BOOLEAN]

MinWordLengths == {1, 2}

ProcessText ==
    \E text \in Texts, do_segment \in BOOLEAN, do_remove_stopwords \in BOOLEAN,
       clean_options \in CleanOptionChoices, min_word_length \in MinWordLengths :
        /\ last' = [NoCall EXCEPT
                        !.op = "process_text",
                        !.args = [text |-> text, segment |-> do_segment,
                                  remove_stopwords |-> do_remove_stopwords,
                                  clean_options |-> clean_options,
                                  min_word_length |-> min_word_length],
                        !.ret = [str |-> process_text(text, do_segment, do_remove_stopwords,
                                                      clean_options, min_word_length)]]
        /\ UNCHANGED <<mmVars, taVars, uiVars, utilVars>>

\* A table is a function from its column names to the cells of the column, in
\* row order.
Tables ==
    {[text |-> <<>>],
     [text |-> <<<<"The", Blank, "the">>, <<Url, Blank, "cat">>>>],
     [body |-> <<<<"the", Punctuation>>>>],
     [text |-> <<<<"the", Blank, "cat">>>>, text_processed |-> <<<<"a">>>>]}

TextColumns == {"text", "body"}
\* output_column: None, or [name |-> the name given].
OutputColumns == {None, [name |-> "out"], [name |-> "text"]}

\* process_dataframe that assigns the output column to the table it was given.
process_dataframe_table_in_place(df, text_column, output_column, row_fails) ==
    IF text_column \notin DOMAIN df
    THEN [raised |-> Exc("ValueError", "Column not found"), ret |-> None, df |-> df]
    ELSE IF row_fails /\ df[text_column] # <<>>
    THEN [raised |-> Exc("TypeError", "process_text"), ret |-> None, df |-> df]
    ELSE LET out == IF output_column # None THEN output_column.name
                    ELSE text_column \o "_processed"
             result == [c \in DOMAIN df \cup {out} |->
                          IF c = out
                          THEN [i \in DOMAIN df[text_column] |->
                                  process_text(df[text_column][i], TRUE, TRUE, None, 1)]
                          ELSE df[c]]
         IN [raised |-> None, ret |-> result, df |-> result]

\* TextProcessor.process_dataframe with the default processing options.  df in
\* the result is the caller's table after the call; row_fails: process_text
\* raises (on the first row, there being one).
process_dataframe_table(df, text_column, output_column, row_fails) ==
    IF text_column \notin DOMAIN df
    THEN [raised |-> Exc("ValueError", "Column not found"), ret |-> None, df |-> df]
    ELSE IF row_fails /\ df[text_column] # <<>>
    THEN [raised |-> Exc("TypeError", "process_text"), ret |-> None, df |-> df]
    ELSE LET out == IF output_column # None THEN output_column.name
                    ELSE text_column \o "_processed"
             copy == df
         IN [raised |-> None,
             ret |-> [c \in DOMAIN copy \cup {out} |->
                        IF c = out
                        THEN [i \in DOMAIN df[text_column] |->
                                process_text(df[text_column][i], TRUE, TRUE, None, 1)]
                        ELSE copy[c]],
             df |-> df]

ProcessDataframe ==
    \E df \in Tables, text_column \in TextColumns, output_column \in OutputColumns,
       row_fails \in BOOLEAN :
    \E r \in {process_dataframe_table(df, text_column, output_column, row_fails)} :
        /\ last' = [NoCall EXCEPT
                        !.op = "process_dataframe",
                        !.args = [before |-> df, df |-> r.df, text_column |-> text_column,
                                  output_column |-> output_column],
                        !.raised = r.raised,
                        !.ret = r.ret]
        /\ UNCHANGED <<mmVars, taVars, uiVars, utilVars>>

\* str.strip() of one line of a stopword file.
RECURSIVE str_strip(_)
str_strip(line) ==
    IF line = <<>> THEN <<>>
    ELSE IF Head(line) = Blank THEN str_strip(Tail(line))
    ELSE IF line[Len(line)] = Blank THEN str_strip(SubSeq(line, 1, Len(line) - 1))
    ELSE line

\* Stopword files: a path that cannot be opened, a file that is not UTF-8
\* after its first line, and files with padded and blank lines.
StopwordFiles ==
    { [opens |-> FALSE, decodes |-> TRUE, lines |-> <<>>],
      [opens |-> TRUE, decodes |-> FALSE, lines |-> <<<<"cat">>, <<"a">>>>],
      [opens |-> TRUE, decodes |-> TRUE, lines |-> <<>>],
      [opens |-> TRUE, decodes |-> TRUE, lines |-> <<<<Blank, "a", Blank>>, <<>>, <<Blank>>>>],
      [opens |-> TRUE, decodes |-> TRUE, lines |-> <<<<"cat">>, <<"the", Blank>>, <<"cat">>>>] }

\* set(line.strip() for line in f if line.strip())
FileWords(file) ==
    {str_strip(file.lines[i])[1] : i \in {j \in DOMAIN file.lines : str_strip(file.lines[j]) # <<>>}}

\* load_stopwords that adds the file's words to the set it had.
load_stopwords_keeping_old(self, file) ==
    IF file.opens /\ file.decodes THEN self.stopwords \cup FileWords(file) ELSE self.stopwords

\* TextProcessor.load_stopwords(stopwords_path): the value of self.stopwords
\* after the call.  open() or the read raises before the assignment.
load_stopwords(self, file) ==
    IF file.opens /\ file.decodes THEN FileWords(file) ELSE self.stopwords

\* TextProcessor.add_stopwords(words): the value of self.stopwords after.
add_stopwords(self, words) == self.stopwords \cup Range(words)

StopwordLists == {<<>>, <<"a">>, <<"cat", "the">>}

LoadStopwords ==
    \E file \in StopwordFiles :
        /\ processor' = [stopwords |-> load_stopwords(processor, file),
                         loaded |-> IF file.opens /\ file.decodes
                                    THEN FileWords(file) ELSE processor.loaded,
                         added |-> IF file.opens /\ file.decodes THEN {} ELSE processor.added]
        /\ last' = [NoCall EXCEPT !.op = "load_stopwords", !.args = [file |-> file]]
        /\ UNCHANGED <<mmVars, taVars, uiVars, config, managers>>

AddStopwords ==
    \E words \in StopwordLists :
        /\ processor' = [processor EXCEPT
                             !.stopwords = add_stopwords(processor, words),
                             !.added = @ \cup Range(words)]
        /\ last' = [NoCall EXCEPT !.op = "add_stopwords", !.args = [words |-> words]]
        /\ UNCHANGED <<mmVars, taVars, uiVars, config, managers>>

NextProc == ProcessText \/ ProcessDataframe

\* A processor whose stopword set is edited between the tables it processes.
NextStop == LoadStopwords \/ AddStopwords \/ ProcessDataframe

SpecStop == Init /\ [][NextStop]_vars

SpecProc == Init /\ [][NextProc]_vars

\* str.split(): the tokens of a string, the characters between blanks.
RECURSIVE split(_, _)
split(text, token) ==
    IF text = <<>> THEN (IF token = "" THEN {} ELSE {token})
    ELSE IF Head(text) = Blank
    THEN (IF token = "" THEN {} ELSE {token}) \cup split(Tail(text), "")
    ELSE split(Tail(text), token \o Head(text))

\* C20 as stated: the stopword filter and the minimum-length filter of
\* process_text act whenever their own option is set, whatever the other
\* options are: with remove_stopwords the result has no token of the stopword
\* set, with min_word_length > 1 no token shorter than that.
C20_AsStated ==
    last.op = "process_text" =>
        /\ last.args.remove_stopwords =>
                split(last.ret.str, "") \cap stopwords = {}
        /\ last.args.min_word_length > 1 =>
                \A token \in split(last.ret.str, "") : Len(token) >= last.args.min_word_length

\* The name process_dataframe gives the output column of the last call.
OutputColumn ==
    IF last.args.output_column # None THEN last.args.output_column.name
    ELSE last.args.text_column \o "_processed"

\* The output column of the result holds process_text of each row, in row order.
HoldsProcessedRows ==
    /\ OutputColumn \in DOMAIN last.ret
    /\ Len(last.ret[OutputColumn]) = Len(last.args.before[last.args.text_column])
    /\ \A i \in DOMAIN last.ret[OutputColumn] :
         last.ret[OutputColumn][i] =
            process_text(last.args.before[last.args.text_column][i], TRUE, TRUE, None, 1)

C22_StopwordSet == processor.stopwords = processor.loaded \cup processor.added

\* A load failed after words were added to a set loaded from another file.
C22_Witness ==
    /\ last.op = "load_stopwords"
    /\ ~(last.args.file.opens /\ last.args.file.decodes)
    /\ processor.added # {}
    /\ processor.loaded \notin {{"the"}, {}}
    /\ ~(processor.added \subseteq processor.loaded)

(***************************************************************************)
(* ConfigManager.  QSettings keeps the settings of the process in memory   *)
(* and writes them to the settings file on sync(), which the code calls,   *)
(* the event loop calls at intervals and the destructor calls on a clean   *)
(* exit.  The ConfigManagers of one process see the same memory.           *)
(***************************************************************************)
Put(store, key, value) ==
    [k \in DOMAIN store \cup {key} |-> IF k = key THEN value ELSE store[k]]

Del(store, key) == [k \in DOMAIN store \ {key} |-> store[k]]

QSettings_value(c, key, default) == IF key \in DOMAIN c.mem THEN c.mem[key] ELSE default
QSettings_setValue(c, key, value) == [c EXCEPT !.mem = Put(c.mem, key, value)]
QSettings_remove(c, key) == [c EXCEPT !.mem = Del(c.mem, key)]
QSettings_clear(c) == [c EXCEPT !.mem = NoSettings]
QSettings_sync(c) == [c EXCEPT !.disk = c.mem]

\* ConfigManager.get(key, default)
get(c, key, default) == QSettings_value(c, key, default)

\* ConfigManager.set(key, value)
set(c, key, value) == QSettings_sync(QSettings_setValue(c, key, value))

\* ConfigManager.remove(key)
remove(c, key) == QSettings_remove(c, key)

\* ConfigManager.clear_all_settings()
clear_all_settings(c) == QSettings_clear(c)

\* ConfigManager.save()
save(c) == QSettings_sync(c)

\* The JSON tree of model parameters: a dict maps a key to a leaf or a dict.
Leaf(value) == [leaf |-> value]
Dict(d) == [dict |-> d]
IsDict(node) == "dict" \in DOMAIN node

\* ConfigManager.load_model_config() of the i-th manager: the config after
\* the call, the dict returned and whether that dict is the cached object.
load_model_config(c, i) ==
    IF c.cache[i] # None
    THEN [config |-> c, ret |-> c.cache[i], is_cache |-> TRUE]
    ELSE IF c.file # None
    THEN [config |-> [c EXCEPT !.cache[i] = c.file], ret |-> c.file, is_cache |-> TRUE]
    ELSE [config |-> [c EXCEPT !.cache[i] = Dict(NoSettings)], ret |-> Dict(NoSettings),
          is_cache |-> FALSE]

\* ConfigManager.save_model_config(config_dict); open() for writing may fail.
save_model_config(c, i, config_dict, open_fails) ==
    IF open_fails
    THEN [config |-> c, raised |-> Exc("OSError", "open")]
    ELSE [config |-> [c EXCEPT !.file = config_dict, !.cache[i] = config_dict],
          raised |-> None]

\* ConfigManager.get_model_param(param_name, default); param_name.split(".")
\* is given as the sequence of its keys, one or two of them.
get_model_param(c, i, keys, default) ==
    LET loaded == load_model_config(c, i)
        top == loaded.ret.dict
        found ==
            IF keys[1] \notin DOMAIN top THEN default
            ELSE IF Len(keys) = 1
            THEN top[keys[1]]
            ELSE IF IsDict(top[keys[1]]) /\ keys[2] \in DOMAIN top[keys[1]].dict
            THEN top[keys[1]].dict[keys[2]]
            ELSE default
    IN [config |-> loaded.config, ret |-> found]

\* ConfigManager.set_model_param(param_name, value).  The walk mutates the
\* dict load_model_config returned, which is the cache itself unless the
\* cache was just created; a key under a leaf raises TypeError.
set_model_param(c, i, keys, value, open_fails) ==
    LET loaded == load_model_config(c, i)
        top == loaded.ret.dict
        under == IF keys[1] \in DOMAIN top THEN top[keys[1]] ELSE Dict(NoSettings)
        config_dict ==
            IF Len(keys) = 1 THEN Dict(Put(top, keys[1], Leaf(value)))
            ELSE Dict(Put(top, keys[1], Dict(Put(under.dict, keys[2], Leaf(value)))))
        mutated ==
            IF loaded.is_cache THEN [loaded.config EXCEPT !.cache[i] = config_dict]
            ELSE loaded.config
    IN IF Len(keys) = 2 /\ ~IsDict(under)
       THEN [config |-> loaded.config,
             raised |-> Exc("TypeError", "does not support item assignment")]
       ELSE save_model_config(mutated, i, config_dict, open_fails)

SettingKeys == {"test_key"}
SettingValues == {[value |-> "v"], [value |-> "w"]}
ParamNames == {<<"a">>, <<"u", "n">>, <<"a", "n">>}
ParamValues == {15}

ConfigCall(op, args) == [NoCall EXCEPT !.op = op, !.args = args]

otherVars == <<mmVars, taVars, uiVars, processor, managers>>

Get ==
    \E key \in SettingKeys :
        /\ last' = [ConfigCall("get", [key |-> key]) EXCEPT !.ret = get(config, key, None)]
        /\ UNCHANGED <<otherVars, config>>

Set ==
    \E key \in SettingKeys, value \in SettingValues :
        /\ config' = set(config, key, value)
        /\ last' = ConfigCall("set", [key |-> key, value |-> value])
        /\ UNCHANGED otherVars

Remove ==
    \E key \in SettingKeys :
        /\ config' = remove(config, key)
        /\ last' = ConfigCall("remove", [key |-> key])
        /\ UNCHANGED otherVars

ClearAllSettings ==
    /\ config' = clear_all_settings(config)
    /\ last' = ConfigCall("clear_all_settings", None)
    /\ UNCHANGED otherVars

Save ==
    /\ config' = save(config)
    /\ last' = ConfigCall("save", None)
    /\ UNCHANGED otherVars

SetModelParam ==
    \E i \in 1..2, keys \in ParamNames, value \in ParamValues, open_fails \in BOOLEAN :
    \E r \in {set_model_param(config, i, keys, value, open_fails)} :
        /\ config' = r.config
        /\ last' = [ConfigCall("set_model_param", [i |-> i, keys |-> keys, value |-> value])
                        EXCEPT !.raised = r.raised]
        /\ UNCHANGED otherVars

GetModelParam ==
    \E i \in 1..2, keys \in ParamNames :
    \E r \in {get_model_param(config, i, keys, None)} :
        /\ config' = r.config
        /\ last' = [ConfigCall("get_model_param", [i |-> i, keys |-> keys])
                        EXCEPT !.ret = r.ret]
        /\ UNCHANGED otherVars

\* The application ends and starts again: a clean exit destroys the QSettings
\* object, which syncs; a killed process keeps what the file held.  The new
\* process reads the file and has no cached model configuration.
Restart ==
    \E clean \in BOOLEAN :
        /\ config' = [config EXCEPT
                          !.mem = IF clean THEN config.mem ELSE config.disk,
                          !.disk = IF clean THEN config.mem ELSE config.disk,
                          !.cache = [i \in 1..2 |-> None]]
        /\ last' = ConfigCall("restart", [clean |-> clean])
        /\ UNCHANGED otherVars

NextCfg ==
    \/ Get \/ Set \/ Remove \/ ClearAllSettings \/ Save
    \/ SetModelParam \/ GetModelParam \/ Restart

SpecCfg == Init /\ [][NextCfg]_vars

\* C23: every mutation is written through before the call returns: when set,
\* remove or clear_all_settings has returned the settings file holds what the
\* process holds, and when set_model_param has returned the JSON file holds
\* the manager's dict; a get after a set of the same key returns the value set.
C23_AsStated ==
    /\ [](last.op \in {"set", "remove", "clear_all_settings"} => config.disk = config.mem)
    /\ []((last.op = "set_model_param" /\ last.raised = None)
            => config.file = config.cache[last.args.i])
    /\ [][(last.op = "set" /\ last'.op = "get" /\ last'.args.key = last.args.key)
            => last'.ret = last.args.value]_vars

\* C24: the topic count reported when training completes, by train in its
\* last progress message and by the modeling tab from the topic table, is the
\* number of distinct labels other than -1.
C24_AsStated ==
    (last.op = "train" /\ last.raised = None) =>
        /\ last.args.topics_found = Cardinality(Range(last.ret.topics.items) \ {-1})
        /\ num_topics(get_topic_info(analyzer).ret)
               = Cardinality(Range(last.ret.topics.items) \ {-1})

\* C25: the matrix generate_embeddings(documents, model_id, use_cache=true)
\* returns was computed by model_id: after the embeddings of model A were
\* cached, a call for the same documents with model B does not return A's.
C25_AsStated ==
    (last.op = "generate_embeddings" /\ last.flag /\ last.raised = None) =>
        last.ret.weights = last.model_name

(***************************************************************************)
(* Several ModelManagers over one cache directory: each keeps the metadata *)
(* it read when it was constructed and writes all of it on every save.     *)
(***************************************************************************)
\* ModelManager._load_metadata
load_metadata(metadata_file) == IF metadata_file = None THEN <<>> ELSE metadata_file.data

\* ModelManager._save_metadata: the file is rewritten from self.metadata.
save_metadata(md) == [data |-> md]

\* The state after the i-th manager's call: d is what the call returned,
\* saved whether the call reached _save_metadata.
AfterCall(i, d, saved_it, now_downloaded) ==
    [metadata |-> [managers.metadata EXCEPT ![i] = d.metadata],
     metadata_file |-> IF saved_it THEN save_metadata(d.metadata)
                       ELSE managers.metadata_file,
     downloaded |-> now_downloaded]

\* ModelManager(): a tab, or a TopicAnalyzer, constructs a manager of its own.
Construct ==
    \E i \in 1..2 :
        /\ managers' = [managers EXCEPT !.metadata[i] = load_metadata(managers.metadata_file)]
        /\ last' = [NoCall EXCEPT !.op = "ModelManager", !.args = [i |-> i]]
        /\ UNCHANGED <<mmVars, taVars, uiVars, processor, config>>

SharedDownload ==
    \E i \in 1..2, model_name \in SharedIds, e \in {QuietEnv} :
    \E d \in {download_model(managers.metadata[i], disk, clock, model_name, FALSE, e)} :
        /\ clock < MaxClock
        /\ disk' = d.disk
        /\ clock' = d.clock
        /\ managers' = AfterCall(i, d, d.hub /\ d.raised = None,
                                 IF d.hub /\ d.raised = None
                                 THEN managers.downloaded \cup {model_name}
                                 ELSE managers.downloaded)
        /\ last' = [NoCall EXCEPT !.op = "download_model", !.model_name = model_name,
                                  !.raised = d.raised, !.ret = d.ret, !.hub = d.hub,
                                  !.args = [i |-> i]]
        /\ UNCHANGED <<metadata, taVars, uiVars, processor, config>>

SharedDelete ==
    \E i \in 1..2, model_name \in SharedIds :
    \E d \in {delete_model(managers.metadata[i], disk, model_name, TRUE)} :
        /\ disk' = d.disk
        /\ managers' = AfterCall(i, d, d.ret,
                                 IF d.ret THEN managers.downloaded \ {model_name}
                                 ELSE managers.downloaded)
        /\ last' = [NoCall EXCEPT !.op = "delete_model", !.model_name = model_name,
                                  !.ret = [value |-> d.ret], !.args = [i |-> i]]
        /\ UNCHANGED <<metadata, clock, taVars, uiVars, processor, config>>

SharedClear ==
    \E i \in 1..2 :
    \E d \in {clear_cache(managers.metadata[i], disk, {})} :
        /\ disk' = d.disk
        /\ managers' = AfterCall(i, d, d.metadata # managers.metadata[i],
                                 managers.downloaded \ Keys(managers.metadata[i]))
        /\ last' = [NoCall EXCEPT !.op = "clear_cache", !.ret = [value |-> d.ret],
                                  !.args = [i |-> i]]
        /\ UNCHANGED <<metadata, clock, taVars, uiVars, processor, config>>

NextShared == Construct \/ SharedDownload \/ SharedDelete \/ SharedClear

SpecShared == Init /\ [][NextShared]_vars

\* C26: with several ModelManagers over one cache directory the persisted
\* metadata holds a record for exactly the models that were downloaded
\* successfully and not deleted since, whichever manager made which call.
C26_AsStated == Keys(load_metadata(managers.metadata_file)) = managers.downloaded

\* C27: every worker thread the GUI started eventually quits once run() has
\* returned, whether the run ended with finished, with error, or cancelled
\* with no terminal signal.
C27_AsStated ==
    \A i \in 1..MaxWorkers :
        (i \in DOMAIN workers /\ Connected(workers[i]) /\ workers[i].pc = "done")
            ~> (i \notin gui.threads)

\* The GUI thread delivers the finished signal of a processing worker.
ProcessingFinishedDelivered ==
    /\ events # <<>>
    /\ events' = Tail(events)
    /\ Head(events).signal = "finished"
    /\ workers[Head(events).worker].kind = "processing"

\* C28: whenever text processing finishes successfully, whatever the name of
\* the selected text column, the processed table is handed to the modeling
\* tab, and start_training then finds its processed-text column.
C28_AsStated ==
    [][ProcessingFinishedDelivered =>
            /\ gui'.processed_data
                   = process_dataframe(workers[Head(events).worker].args.df,
                                       workers[Head(events).worker].args.text_column)
            /\ "text_processed" \in gui'.processed_data.columns]_vars

(***************************************************************************)
(* Recent files.  The list is the value of the key "recent_files"; added   *)
(* remembers the paths in the order of their last addition, newest first,  *)
(* since the list was last cleared.                                        *)
(***************************************************************************)
MaxRecentFiles == 10

\* Ten files opened one after the other, "f10" last.
TenFiles == <<"f10", "f09", "f08", "f07", "f06", "f05", "f04", "f03", "f02", "f01">>

\* Path(f).exists(): "gone" names a file that was deleted.
PathExists(f) == f # "gone"

\* The paths add_recent_file is given: the oldest and the newest of the list,
\* one not in the list, one that does not exist.
RecentPaths == {"f01", "f10", "f11", "gone"}

Without(files, file_path) == SelectSeq(files, LAMBDA f : f # file_path)

\* list.remove(x): the first occurrence goes.
list_remove(files, file_path) ==
    LET first == CHOOSE i \in DOMAIN files :
                    /\ files[i] = file_path
                    /\ \A j \in 1..(i - 1) : files[j] # file_path
    IN SubSeq(files, 1, first - 1) \o SubSeq(files, first + 1, Len(files))

\* ConfigManager.get_recent_files()
get_recent_files(c) ==
    SelectSeq(get(c, "recent_files", PyList(<<>>)).items, PathExists)

\* add_recent_file that does not look for the path in the list.
add_recent_file_keeping_old(c, file_path) ==
    set(c, "recent_files",
        PyList(SubSeq(<<file_path>> \o get_recent_files(c), 1,
                      Min(MaxRecentFiles, Len(get_recent_files(c)) + 1))))

\* ConfigManager.add_recent_file(file_path)
add_recent_file(c, file_path) ==
    LET recent_files == get_recent_files(c)
        removed == IF \E i \in DOMAIN recent_files : recent_files[i] = file_path
                   THEN list_remove(recent_files, file_path) ELSE recent_files
        inserted == <<file_path>> \o removed
    IN set(c, "recent_files", PyList(SubSeq(inserted, 1, Min(MaxRecentFiles, Len(inserted)))))

\* ConfigManager.clear_recent_files()
clear_recent_files(c) == set(c, "recent_files", PyList(<<>>))

\* The application was used before: nine or ten files are in the list, or none.
InitRecent ==
    /\ metadata = <<>>
    /\ disk = [p \in Paths |-> None]
    /\ clock = 0
    /\ emb_cache = [p \in CachePaths |-> None]
    /\ analyzer = NewTopicAnalyzer
    /\ saved = [n \in SaveNames |-> None]
    /\ history = NewHistory
    /\ last = NoCall
    /\ workers = <<>>
    /\ gui = NewGui
    /\ events = <<>>
    /\ processor = NewTextProcessor
    /\ \E n \in {1, 2, 11} :
          config = [set(NewConfig, "recent_files", PyList(SubSeq(TenFiles, n, 10)))
                        EXCEPT !.added = SubSeq(TenFiles, n, 10)]
    /\ managers = NewManagers

AddRecentFile ==
    /\ config.calls < MaxCalls
    /\ \E file_path \in RecentPaths :
        /\ config' = [add_recent_file(config, file_path) EXCEPT
                          !.added = <<file_path>> \o Without(config.added, file_path),
                          !.calls = @ + 1]
        /\ last' = ConfigCall("add_recent_file", [file_path |-> file_path])
    /\ UNCHANGED otherVars

GetRecentFiles ==
    /\ last' = [ConfigCall("get_recent_files", None) EXCEPT
                    !.ret = PyList(get_recent_files(config))]
    /\ UNCHANGED <<otherVars, config>>

ClearRecentFiles ==
    /\ config.calls < MaxCalls
    /\ config' = [clear_recent_files(config) EXCEPT !.added = <<>>, !.calls = @ + 1]
    /\ last' = ConfigCall("clear_recent_files", None)
    /\ UNCHANGED otherVars

NextRecent == AddRecentFile \/ GetRecentFiles \/ ClearRecentFiles

SpecRecent == InitRecent /\ [][NextRecent]_vars

\* The list as it is stored.
StoredRecentFiles == config.mem["recent_files"].items

RECURSIVE IsSubSeq(_, _)
IsSubSeq(s, t) ==
    IF s = <<>> THEN TRUE
    ELSE IF t = <<>> THEN FALSE
    ELSE IF Head(s) = Head(t) THEN IsSubSeq(Tail(s), Tail(t))
    ELSE IsSubSeq(s, Tail(t))

\* C29: after any sequence of add_recent_file and clear_recent_files the stored
\* list has at most 10 entries, holds no path twice, starts with the path
\* added last, and keeps the others in the order of their last addition.
C29_RecentFiles ==
    /\ Len(StoredRecentFiles) <= MaxRecentFiles
    /\ \A i, j \in DOMAIN StoredRecentFiles :
            StoredRecentFiles[i] = StoredRecentFiles[j] => i = j
    /\ last.op = "add_recent_file" => StoredRecentFiles[1] = last.args.file_path
    /\ IsSubSeq(StoredRecentFiles, config.added)

\* A path was added to a full list: the oldest entry went, and a path that
\* was in the list moved to the top.
C29_Witness ==
    /\ last.op = "add_recent_file"
    /\ Len(StoredRecentFiles) = MaxRecentFiles
    /\ Len(config.added) > MaxRecentFiles
    /\ StoredRecentFiles[1] = "f10"
    /\ StoredRecentFiles[2] = "f11"

(***************************************************************************)
(* validate_text_column.  A cell is [na, str]: whether pandas takes it for *)
(* missing, and the characters of str(cell).                               *)
(***************************************************************************)
DEFAULT_MIN_TEXT_LENGTH == 10

Cell(text) == [na |-> FALSE, str |-> text]
NaN == [na |-> TRUE, str |-> <<"n", "a", "n">>]

\* An empty cell, ten blanks, a short text, a text of ten characters, a
\* missing value.
Cells == {Cell(<<>>), Cell(Repeat(Blank, 10)), Cell(<<"a", "b">>), Cell(Repeat("a", 10)), NaN}

MaxRows == 3

Columns == UNION {[1..n -> Cells] : n \in 1..MaxRows}

Count(rows, test(_)) == Cardinality({i \in DOMAIN rows : test(rows[i])})

\* validators.validate_column_not_empty
validate_column_not_empty(df, column_name) ==
    IF column_name \notin DOMAIN df THEN [ok |-> FALSE, error |-> "not found"]
    ELSE IF \A i \in DOMAIN df[column_name] : df[column_name][i].na
    THEN [ok |-> FALSE, error |-> "contains only null values"]
    ELSE [ok |-> TRUE, error |-> "none"]

\* validators.validate_text_column(df, column_name, min_length, allow_empty);
\* min_length is None or [int |-> n].
validate_text_column(df, column_name, min_length_arg, allow_empty) ==
    LET min_length == IF min_length_arg = None \/ min_length_arg.int = 0
                      THEN DEFAULT_MIN_TEXT_LENGTH ELSE min_length_arg.int
        checked == validate_column_not_empty(df, column_name)
        text_series == df[column_name]
        total_count == Len(text_series)
        empty_count == Count(text_series, LAMBDA cell : str_strip(cell.str) = <<>>)
        too_short_count == Count(text_series, LAMBDA cell : Len(cell.str) < min_length)
        valid_count == total_count - empty_count - too_short_count
        stats == [total |-> total_count, empty |-> empty_count,
                  too_short |-> too_short_count, valid |-> valid_count]
    IN IF ~checked.ok THEN [ok |-> FALSE, error |-> checked.error, stats |-> None]
       ELSE IF ~allow_empty /\ empty_count > 0
       THEN [ok |-> FALSE, error |-> "contains empty values", stats |-> stats]
       ELSE IF valid_count = 0
       THEN [ok |-> FALSE, error |-> "has no valid text", stats |-> stats]
       ELSE IF valid_count * 2 < total_count
       THEN [ok |-> FALSE, error |-> "has too few valid texts", stats |-> stats]
       ELSE [ok |-> TRUE, error |-> "none", stats |-> stats]

MinLengths == {None, [int |-> 0], [int |-> 2]}

\* The arguments of one call, drawn before the call.
InitValid ==
    /\ metadata = <<>>
    /\ disk = [p \in Paths |-> None]
    /\ clock = 0
    /\ emb_cache = [p \in CachePaths |-> None]
    /\ analyzer = NewTopicAnalyzer
    /\ saved = [n \in SaveNames |-> None]
    /\ history = NewHistory
    /\ \E rows \in Columns, column_name \in TextColumns, min_length \in MinLengths,
          allow_empty \in BOOLEAN :
          last = [NoCall EXCEPT
                      !.op = "arguments",
                      !.args = [df |-> [c \in {"text"} |-> rows], column_name |-> column_name,
                                min_length |-> min_length, allow_empty |-> allow_empty]]
    /\ workers = <<>>
    /\ gui = NewGui
    /\ events = <<>>
    /\ processor = NewTextProcessor
    /\ config = NewConfig
    /\ managers = NewManagers

ValidateTextColumn ==
    /\ last.op = "arguments"
    /\ last' = [last EXCEPT
                    !.op = "validate_text_column",
                    !.ret = validate_text_column(last.args.df, last.args.column_name,
                                                 last.args.min_length, last.args.allow_empty)]
    /\ UNCHANGED <<mmVars, taVars, uiVars, utilVars>>

SpecValid == InitValid /\ [][ValidateTextColumn]_vars

\* The rows whose text is not empty after trimming and has min_length
\* characters or more.
ValidRows ==
    LET min_length == IF last.args.min_length = None \/ last.args.min_length.int = 0
                      THEN DEFAULT_MIN_TEXT_LENGTH ELSE last.args.min_length.int
    IN Count(last.args.df[last.args.column_name],
             LAMBDA cell : str_strip(cell.str) # <<>> /\ Len(cell.str) >= min_length)

\* C30: the statistics of validate_text_column: valid is the number of rows
\* whose text is non-empty after trimming and at least min_length long, it
\* lies between 0 and total, and the column is rejected for no valid text or
\* for fewer than half valid on that number.
C30_AsStated ==
    (last.op = "validate_text_column" /\ last.ret.stats # None) =>
        /\ last.ret.stats.valid = ValidRows
        /\ 0 <= last.ret.stats.valid
        /\ last.ret.stats.valid <= last.ret.stats.total
        /\ (last.args.allow_empty \/ last.ret.stats.empty = 0)
                => (last.ret.ok <=> (ValidRows > 0 /\ ValidRows * 2 >= last.ret.stats.total))

====
